---------------------------- MODULE Spec2Model ----------------------------
(***************************************************************************)
(* A model of react-devtools-mcp's fiber engine (src/src/lib/react-fiber.ts)*)
(* the snippets that run inside the inspected page: getComponentTree,      *)
(* inspectComponent, searchComponents, modifyState, and the value          *)
(* serializer safeSerialize.                                               *)
(*                                                                         *)
(* Strings are TLA+ strings.  A fiber reference is a number of Fibers, and *)
(* 0 is the null reference.  Any other value of the target is a reference: *)
(* Null, Undef, or the name of a cell of the heap.                         *)
(***************************************************************************)
EXTENDS Integers, Sequences, FiniteSets, TLC

\* ------------------------------------------------------------- bounds

\* Fibers of the target's forest (root fibers included).
MaxFibers == 4
\* getComponentTree's maxDepth argument ranges over -1..MaxDepthArg.
MaxDepthArg == 2
\* searchComponents' maxResults argument ranges over 0..MaxResultsArg.
MaxResultsArg == 2
\* modifyState's hookIndex argument ranges over -1..MaxHookArg.
MaxHookArg == 2
\* The longest array and the most keys of an object the serializer is given.
MaxItems == 11
MaxKeys == 21

Fibers == 1..MaxFibers

Undef == "<undefined>"
Null == "<null>"

\* ------------------------------------------------------------ strings

\* String.prototype.toLowerCase on one character (the letters the model's
\* names use in upper case).
LowerChar(c) ==
  CASE c = "A" -> "a" [] c = "B" -> "b" [] c = "C" -> "c" [] c = "D" -> "d"
    [] c = "F" -> "f" [] c = "H" -> "h" [] c = "I" -> "i" [] c = "M" -> "m"
    [] c = "P" -> "p" [] c = "R" -> "r" [] c = "S" -> "s" [] c = "T" -> "t"
    [] c = "U" -> "u" [] c = "V" -> "v" [] OTHER -> c

toLowerCase_identity(s) == s
RECURSIVE toLowerCase(_)
toLowerCase(s) ==
  IF Len(s) = 0 THEN ""
  ELSE LowerChar(SubSeq(s, 1, 1)) \o toLowerCase(SubSeq(s, 2, Len(s)))

\* String.prototype.includes: q occurs in s as a contiguous substring.
includes(s, q) ==
  \E i \in 1..(Len(s) - Len(q) + 1) : SubSeq(s, i, i + Len(q) - 1) = q

\* ------------------------------------------------------ the tag tables

\* TAGS of getComponentTree (the same table as the exported FIBER_TAGS).
TAGS_tree(tag) ==
  CASE tag = 0 -> "FunctionComponent" [] tag = 1 -> "ClassComponent"
    [] tag = 2 -> "IndeterminateComponent" [] tag = 3 -> "HostRoot"
    [] tag = 5 -> "HostComponent" [] tag = 6 -> "HostText"
    [] tag = 7 -> "Fragment" [] tag = 8 -> "Mode"
    [] tag = 10 -> "ForwardRef" [] tag = 11 -> "SimpleMemoComponent"
    [] tag = 12 -> "MemoComponent" [] tag = 13 -> "SuspenseComponent"
    [] tag = 14 -> "ProfilerComponent" [] tag = 15 -> "ContextConsumer"
    [] tag = 16 -> "ContextProvider" [] tag = 22 -> "OffscreenComponent"
    [] OTHER -> Undef

\* TAGS of inspectComponent.
TAGS_inspect(tag) ==
  CASE tag = 0 -> "FunctionComponent" [] tag = 1 -> "ClassComponent"
    [] tag = 3 -> "HostRoot" [] tag = 5 -> "HostComponent"
    [] tag = 7 -> "Fragment" [] tag = 10 -> "ForwardRef"
    [] tag = 11 -> "SimpleMemoComponent" [] tag = 12 -> "MemoComponent"
    [] tag = 13 -> "SuspenseComponent" [] tag = 16 -> "ContextProvider"
    [] OTHER -> Undef

\* TAGS of searchComponents.
TAGS_search(tag) ==
  CASE tag = 0 -> "FunctionComponent" [] tag = 1 -> "ClassComponent"
    [] tag = 5 -> "HostComponent" [] tag = 10 -> "ForwardRef"
    [] tag = 11 -> "SimpleMemoComponent" [] tag = 12 -> "MemoComponent"
    [] tag = 13 -> "SuspenseComponent" [] tag = 16 -> "ContextProvider"
    [] OTHER -> Undef

\* TAGS[tag] in the table of the named operation.
TAGS(table, tag) ==
  CASE table = "getComponentTree" -> TAGS_tree(tag)
    [] table = "inspectComponent" -> TAGS_inspect(tag)
    [] table = "searchComponents" -> TAGS_search(tag)

\* a ?? b
Coalesce(a, b) == IF a = Undef \/ a = Null THEN b ELSE a

\* TAGS[tag] ?? `Tag(${tag})`  (the "type" field of a result)
typeOf(table, tag) == Coalesce(TAGS(table, tag), "Tag(" \o ToString(tag) \o ")")

\* getName: the three copies differ only in the TAGS table they close over.
\* A fiber's type is null, a string (host elements), or an object that may
\* carry displayName, name and a render function with its own two names.
getName(table, f) ==
  IF f.type.k = "null" THEN Coalesce(TAGS(table, f.tag), "Unknown(" \o ToString(f.tag) \o ")")
  ELSE IF f.type.k = "string" THEN f.type.s
  ELSE Coalesce(f.type.displayName,
         Coalesce(f.type.name,
           Coalesce(f.type.renderDisplayName,
             Coalesce(f.type.renderName, "Anonymous"))))

TNull == [k |-> "null", s |-> Undef, displayName |-> Undef, name |-> Undef,
          renderDisplayName |-> Undef, renderName |-> Undef]
TString(str) == [TNull EXCEPT !.k = "string", !.s = str]
TObject(dn, n, rdn, rn) ==
  [TNull EXCEPT !.k = "object", !.displayName = dn, !.name = n,
                !.renderDisplayName = rdn, !.renderName = rn]
\* A Symbol as the type of a React element (Fragment, Suspense, StrictMode).
TSymbol(desc) == [TNull EXCEPT !.k = "symbol", !.s = desc]

\* ------------------------------------------------- the target's values

\* The cells of the heap.  A primitive is returned by the serializer as it
\* is; the strings the serializer builds are VString cells too.
VNull == [k |-> "null"]
VUndefined == [k |-> "undefined"]
VNumber == [k |-> "number"]
VString(str) == [k |-> "string", s |-> str]
VFunction(name) == [k |-> "function", name |-> name]
VSymbol(desc) == [k |-> "symbol", description |-> desc]
VHtmlElement(tagName, className) ==
  [k |-> "htmlElement", tagName |-> tagName, className |-> className]
\* An array of values.
VArray(items) == [k |-> "array", items |-> items]
\* A React element: an object with a truthy $$typeof and a type.
VElement(type) == [k |-> "element", type |-> type]
\* An object with its own enumerable keys in order; reading a key gives a
\* value (read = "value") or raises (read = "throws": a getter that throws).
VKey(name, read, ref) == [name |-> name, read |-> read, ref |-> ref]
VObject(keys) == [k |-> "object", keys |-> keys]
\* An object whose $$typeof read raises (a throwing getter or Proxy trap).
VHostile == [k |-> "hostile"]

\* name in v, and v[name], of a cell.
hasKey(v, name) == v.k = "object" /\ \E i \in DOMAIN v.keys : v.keys[i].name = name
getKey(v, name) ==
  IF hasKey(v, name)
  THEN v.keys[CHOOSE i \in DOMAIN v.keys : v.keys[i].name = name].ref
  ELSE Undef

\* ------------------------------------------------- the target's fibers

\* One record of a function component's memoizedState chain, linked through
\* next, and the update queue of a useState or useReducer record.
HookRecord(memoizedState, queue, next) ==
  VObject(<<VKey("memoizedState", "value", memoizedState),
            VKey("baseState", "value", memoizedState),
            VKey("baseQueue", "value", Null),
            VKey("queue", "value", queue),
            VKey("next", "value", next)>>)
UpdateQueue(dispatch, lastRenderedReducer) ==
  VObject(<<VKey("pending", "value", Null),
            VKey("dispatch", "value", dispatch),
            VKey("lastRenderedReducer", "value", lastRenderedReducer)>>)
\* The effect object of a useEffect record; next closes the circular list of
\* the component's effects.
Effect(destroy, deps, next) ==
  VObject(<<VKey("create", "value", "effectFn"),
            VKey("destroy", "value", destroy),
            VKey("deps", "value", deps),
            VKey("next", "value", next)>>)

\* fiber.stateNode: nothing, a class instance (with or without a setState
\* function, and its state), a DOM element, or the root container.
NoNode == [k |-> "null", setState |-> FALSE, state |-> Undef, tagName |-> Undef]
Instance(setState, state) == [NoNode EXCEPT !.k = "instance", !.setState = setState, !.state = state]
DomNode(tagName) == [NoNode EXCEPT !.k = "dom", !.tagName = tagName]
RootNode == [NoNode EXCEPT !.k = "root"]

\* fiber._debugSource
Source(fileName, lineNumber, columnNumber) ==
  [fileName |-> fileName, lineNumber |-> lineNumber, columnNumber |-> columnNumber]
NoSource == [fileName |-> Undef, lineNumber |-> Undef, columnNumber |-> Undef]

\* What a fiber is, apart from its links.
Shape(tag, type) ==
  [tag |-> tag, type |-> type, key |-> Null, memoizedProps |-> Null,
   pendingProps |-> Null, memoizedState |-> Null, stateNode |-> NoNode,
   debugSource |-> NoSource]

\* root.current of every root container: a HostRoot fiber.
RootShape == [Shape(3, TNull) EXCEPT !.stateNode = RootNode, !.memoizedState = "rootState"]

\* The shapes forests are built from, by name: components with hooks or an
\* instance, and one fiber of every other kind.
ShapeTable(name) ==
  CASE name = "HostRoot" -> RootShape
    [] name = "App" -> [Shape(0, TObject(Undef, "App", Undef, Undef)) EXCEPT
              !.memoizedProps = "AppProps", !.pendingProps = "AppProps",
              !.memoizedState = "AppHook0",
              !.debugSource = Source("App.tsx", "12", Undef)]
    [] name = "Tab" -> [Shape(0, TObject("Tab", "t", Undef, Undef)) EXCEPT
              !.key = "k1", !.memoizedProps = "TabProps", !.memoizedState = "TabHook0",
              !.debugSource = Source("Tab.tsx", "3", "5")]
    [] name = "Pane" -> [Shape(1, TObject(Undef, "Pane", Undef, Undef)) EXCEPT
               !.memoizedProps = "emptyProps", !.memoizedState = "PaneState",
               !.stateNode = Instance(TRUE, "PaneState")]
    [] name = "Fragment" -> [Shape(7, TNull) EXCEPT !.memoizedProps = "elements"]
    [] name = "Profiler" -> [Shape(14, TNull) EXCEPT !.memoizedProps = "TabProps"]
    [] name = "Lazy" -> Shape(2, TObject(Undef, "Lazy", Undef, Undef))
    [] name = "div" -> [Shape(5, TString("div")) EXCEPT
              !.memoizedProps = "AppProps", !.stateNode = DomNode("DIV")]
    [] name = "Text" -> [Shape(6, TNull) EXCEPT
               !.memoizedProps = "text", !.stateNode = DomNode(Undef)]
    [] name = "Mode" -> Shape(8, TObject(Undef, Undef, Undef, Undef))
    [] name = "Inp" -> [Shape(10, TObject(Undef, Undef, Undef, "Inp")) EXCEPT
              !.pendingProps = "emptyProps", !.memoizedState = "InpHook0"]
    [] name = "Row" -> [Shape(11, TObject(Undef, "Row", Undef, Undef)) EXCEPT !.key = "k2"]
    [] name = "Memo" -> Shape(12, TObject(Undef, Undef, Undef, Undef))
    [] name = "Suspense" -> [Shape(13, TNull) EXCEPT !.memoizedProps = "TabProps"]
    [] name = "Consumer" -> Shape(15, TObject(Undef, Undef, Undef, Undef))
    [] name = "Provider" -> Shape(16, TObject(Undef, Undef, Undef, Undef))
    [] name = "Offscreen" -> Shape(22, TNull)
    [] name = "Cache" -> Shape(24, TNull)

\* The names ShapeTable defines.
ShapeNames ==
  {"HostRoot", "App", "Tab", "Pane", "Fragment", "Profiler", "Lazy", "div", "Text",
   "Mode", "Inp", "Row", "Memo", "Suspense", "Consumer", "Provider", "Offscreen",
   "Cache"}

WalkShapes == {"App", "Fragment"}
OtherShapes == ShapeNames \ ({"HostRoot"} \cup WalkShapes)

\* The values the shapes refer to.
\*   App: useState (record 0), useEffect (record 1).
\*   Tab: useRef (0), useReducer (1), a record whose queue has no dispatch (2).
\*   Inp: useMemo of a <>...</> element (0).
PageHeap ==
  [count |-> VNumber,
   text |-> VString("hi"),
   effectFn |-> VFunction(""),
   dispatchFn |-> VFunction("bound dispatchSetState"),
   basicStateReducer |-> VFunction("basicStateReducer"),
   reducer |-> VFunction("reducer"),
   appElement |-> VElement(TObject(Undef, "App", Undef, Undef)),
   fragmentElement |-> VElement(TSymbol("react.fragment")),
   elements |-> VArray(<<"appElement", "appElement">>),
   divElement |-> VHtmlElement("DIV", "tab"),
   emptyProps |-> VObject(<<>>),
   rootState |-> VObject(<<VKey("element", "value", "appElement")>>),
   AppProps |-> VObject(<<VKey("title", "value", "text")>>),
   AppHook0 |-> HookRecord("count", "AppQueue0", "AppHook1"),
   AppQueue0 |-> UpdateQueue("dispatchFn", "basicStateReducer"),
   AppHook1 |-> HookRecord("AppEffect", Null, Null),
   AppEffect |-> Effect(Undef, "AppDeps", "AppEffect"),
   AppDeps |-> VArray(<<"count">>),
   TabProps |-> VObject(<<VKey("children", "value", "fragmentElement"),
                          VKey("onSelect", "value", "effectFn")>>),
   TabHook0 |-> HookRecord("TabRef", Null, "TabHook1"),
   TabRef |-> VObject(<<VKey("current", "value", "divElement")>>),
   TabHook1 |-> HookRecord("count", "TabQueue1", "TabHook2"),
   TabQueue1 |-> UpdateQueue("dispatchFn", "reducer"),
   TabHook2 |-> HookRecord("text", "TabQueue2", Null),
   TabQueue2 |-> UpdateQueue(Null, "reducer"),
   PaneState |-> VObject(<<VKey("open", "value", "count")>>),
   InpHook0 |-> HookRecord("InpMemo", Null, Null),
   InpMemo |-> VArray(<<"fragmentElement", "AppDeps">>)]

\* The fibers of a forest given each fiber's parent (0: a root fiber) and
\* shape: child is the first child, sibling the next child of the same
\* parent, return the parent.  Children are ordered by fiber number.
Min(S) == CHOOSE x \in S : \A y \in S : x <= y
FirstOrNull(S) == IF S = {} THEN 0 ELSE Min(S)
MakeFibers(parent, shape) ==
  [n \in Fibers |->
    [shape |-> shape[n],
     child |-> FirstOrNull({m \in Fibers : parent[m] = n}),
     sibling |-> IF parent[n] = 0 THEN 0
                 ELSE FirstOrNull({m \in Fibers : m > n /\ parent[m] = parent[n]}),
     return |-> parent[n]]]

\* -------------------------------------------------------------- state

VARIABLES
  hook,        \* window.__REACT_DEVTOOLS_GLOBAL_HOOK__: available, renderers
  fiber,       \* the target's fibers: Fibers -> [shape, child, sibling, return]
  heap,        \* the target's other values: cells by name
  RDM_FIBERS,  \* window.__RDM_FIBERS__: [defined, arr], arr[h + 1] = fiber of handle h
  last,        \* the operation that ran last, with its arguments and result
  issued,      \* the handles the latest getTree or search returned, each with
               \* the displayName returned with it
  onCommitFiberRoot,               \* hook.onCommitFiberRoot
  rdm_original_onCommitFiberRoot,  \* hook.__rdm_original_onCommitFiberRoot
  RDM_PROFILER_DATA,  \* window.__RDM_PROFILER_DATA__: [defined, entries]
  alternate,          \* the fibers that have an alternate
  actualDuration,     \* fiber.actualDuration in units of 0.005 ms, 0 where the fiber has none
  session,            \* history: the start() calls since the last stop() and
                      \* the commits since the last start()
  browser,            \* browser.ts: the connection, or NoBrowser
  activePage,         \* browser.ts: the page getPage() answers, or NoPage
  pending,            \* browser.ts: where the connect() and the switchPage()
                      \* in flight are suspended
  response            \* what the tool handler that ran last answered

\* The state the profiler reads and writes, and the state of the tool layer.
pvars ==
  <<onCommitFiberRoot, rdm_original_onCommitFiberRoot, RDM_PROFILER_DATA, alternate,
    actualDuration, session>>
bvars == <<browser, activePage, pending>>
tvars == <<bvars, response>>
vars == <<hook, fiber, heap, RDM_FIBERS, last, issued, pvars, tvars>>

\* The values of hook.onCommitFiberRoot: nothing, the target's own function,
\* or the function startProfiler installs, which closes over "original".
NoCallback == [k |-> "undefined"]
TargetCallback == [k |-> "function"]
Wrapper(original) == [k |-> "wrapper", original |-> original]
\* A property that was never set or was deleted.
Absent == [k |-> "absent"]

NoData == [defined |-> FALSE, entries |-> <<>>]
NoSession == [starts |-> 0, commits |-> <<>>]
NoBrowser == "<null>"
TheBrowser == "browser"
NoPage == "<null>"
ThePage == "page"
\* No call of the browser module is in flight.
Idle == [connect |-> "idle", switchPage |-> "idle"]
NoResponse == [k |-> "none"]

\* A page nobody profiles, whose hook has the target's callback, with a tool
\* layer that is connected to it.
ProfilerIdle ==
  /\ onCommitFiberRoot = (IF hook.available THEN TargetCallback ELSE NoCallback)
  /\ rdm_original_onCommitFiberRoot = Absent
  /\ RDM_PROFILER_DATA = NoData
  /\ alternate = {}
  /\ actualDuration = [n \in Fibers |-> 0]
  /\ session = NoSession
ToolsIdle ==
  /\ browser = TheBrowser
  /\ activePage = ThePage
  /\ pending = Idle
  /\ response = NoResponse

\* The root fibers of a forest, in fiber order.
RootsOf(parent) == {n \in Fibers : parent[n] = 0}
RECURSIVE SetToSeq(_)
SetToSeq(S) == IF S = {} THEN <<>> ELSE <<Min(S)>> \o SetToSeq(S \ {Min(S)})

\* hook.renderers and hook.getFiberRoots: a sequence of renderers (the Map's
\* iteration order), each with its set of roots in iteration order, or with
\* getFiberRoots answering undefined (hasRoots = FALSE).
Renderer(roots) ==
  [hasRoots |-> TRUE, roots |-> roots, version |-> "18.2.0", currentDispatcherRef |-> TRUE]
NoRootsRenderer ==
  [hasRoots |-> FALSE, roots |-> <<>>, version |-> Undef, currentDispatcherRef |-> FALSE]
RendererLayouts(roots) ==
  { <<Renderer(roots)>>, <<NoRootsRenderer, Renderer(roots)>> }
  \cup (IF Len(roots) >= 2
        THEN { <<Renderer(<<Head(roots)>>), Renderer(Tail(roots))>> }
        ELSE {})

\* Parent maps of a forest: fiber 1 is a root, every other fiber is a root
\* or the child of a fiber of smaller number.
ParentMaps == {p \in [Fibers -> 0..(MaxFibers - 1)] : \A n \in Fibers : p[n] < n}

\* Shape assignments of the wide family: roots are HostRoot fibers, the
\* other fibers are App (emitted) or Fragment (transparent) fibers.
ShapeMaps(parent) ==
  { [n \in Fibers |-> IF parent[n] = 0 THEN "HostRoot" ELSE base[n]] :
      base \in [Fibers \ RootsOf(parent) -> WalkShapes] }
\* The same with one fiber of any other shape among them.
KindMaps(parent) ==
  { [sh EXCEPT ![n] = other] :
      sh \in ShapeMaps(parent), n \in Fibers \ RootsOf(parent), other \in OtherShapes }

NoOp == [op |-> "none"]

\* A page without the debug hook has no fibers the engine can reach.
InitNoHook ==
  /\ hook = [available |-> FALSE, hasRenderers |-> FALSE, renderers |-> <<>>]
  /\ fiber = MakeFibers([n \in Fibers |-> 0], [n \in Fibers |-> "HostRoot"])

\* A debug hook that has no renderers map.
InitNoRenderers ==
  /\ hook = [available |-> TRUE, hasRenderers |-> FALSE, renderers |-> <<>>]
  /\ fiber = MakeFibers([n \in Fibers |-> 0], [n \in Fibers |-> "HostRoot"])

\* Four forests: a chain, a star, a chain under the first child with a
\* second child beside it, and a chain with a second root.
SessionParents ==
  { [n \in Fibers |-> n - 1],
    [n \in Fibers |-> IF n = 1 THEN 0 ELSE 1],
    [n \in Fibers |-> IF n = 1 THEN 0 ELSE IF n = MaxFibers THEN 1 ELSE n - 1],
    [n \in Fibers |-> IF n = 1 \/ n = MaxFibers THEN 0 ELSE n - 1] }

\* The wide family: every forest of App and Fragment fibers under every
\* layout of renderers, and the four forests with a fiber of another kind.
InitHook ==
  \/ \E parent \in ParentMaps : \E sh \in ShapeMaps(parent) :
       /\ fiber = MakeFibers(parent, sh)
       /\ \E rs \in RendererLayouts(SetToSeq(RootsOf(parent))) :
            hook = [available |-> TRUE, hasRenderers |-> TRUE, renderers |-> rs]
  \/ \E parent \in SessionParents : \E sh \in KindMaps(parent) :
       /\ fiber = MakeFibers(parent, sh)
       /\ hook = [available |-> TRUE, hasRenderers |-> TRUE,
                  renderers |-> <<Renderer(SetToSeq(RootsOf(parent)))>>]

Init ==
  /\ InitNoHook \/ InitNoRenderers \/ InitHook
  /\ heap = PageHeap
  /\ RDM_FIBERS = [defined |-> FALSE, arr |-> <<>>]
  /\ last = NoOp
  /\ issued = <<>>
  /\ ProfilerIdle /\ ToolsIdle

\* The session's forests; the fibers below the roots take their shapes from a
\* palette in turn.
Palettes == { <<"App", "Fragment", "Tab">>, <<"Pane", "Profiler", "Inp">> }
\* One renderer owning every root, or one renderer per group of roots.
SessionLayouts(roots) == RendererLayouts(roots) \ {<<NoRootsRenderer, Renderer(roots)>>}
InitSession ==
  /\ \/ InitNoHook
     \/ InitNoRenderers
     \/ \E parent \in SessionParents, pal \in Palettes :
          /\ fiber = MakeFibers(parent,
                       [n \in Fibers |-> IF parent[n] = 0 THEN "HostRoot"
                                         ELSE pal[(n % Len(pal)) + 1]])
          /\ \E rs \in SessionLayouts(SetToSeq(RootsOf(parent))) :
               hook = [available |-> TRUE, hasRenderers |-> TRUE, renderers |-> rs]
  /\ heap = PageHeap
  /\ RDM_FIBERS = [defined |-> FALSE, arr |-> <<>>]
  /\ last = NoOp
  /\ issued = <<>>
  /\ ProfilerIdle /\ ToolsIdle

\* The value a reference stands for.
Deref(ref) ==
  IF ref = Null THEN VNull ELSE IF ref = Undef THEN VUndefined ELSE heap[ref]

\* fiber._debugOwner: the component whose render created the fiber's
\* element, the nearest function or class component above it (0: none).
RECURSIVE debugOwner(_)
debugOwner(n) ==
  LET p == fiber[n].return IN
  IF p = 0 THEN 0
  ELSE IF ShapeTable(fiber[p].shape).tag \in {0, 1} THEN p
  ELSE debugOwner(p)

\* A fiber of the target with all its fields.
Fib(n) ==
  [child |-> fiber[n].child, sibling |-> fiber[n].sibling, return |-> fiber[n].return]
  @@ ShapeTable(fiber[n].shape)

\* ---------------------------------------------------- getComponentTree

\* arr[i] = v on a JS array (0-based i); a hole reads as the null reference.
ArraySet(arr, i, v) ==
  [k \in 1..(IF i + 1 > Len(arr) THEN i + 1 ELSE Len(arr)) |->
     IF k = i + 1 THEN v ELSE IF k <= Len(arr) THEN arr[k] ELSE 0]

\* shouldInclude as its comment lists the tags: without 14 and 16.
shouldInclude_commentTags(f, includeHtml) ==
  \/ f.tag \in {0, 1, 10, 11, 12, 13}
  \/ (includeHtml /\ f.tag = 5)

shouldInclude(f, includeHtml) ==
  \/ f.tag \in {0, 1, 10, 11, 12, 13, 14, 16}
  \/ (includeHtml /\ f.tag = 5)

\* The depth guard of walkFiber.
depthExceeded_atLimit(depth, maxDepth) == depth >= maxDepth
depthExceeded(depth, maxDepth) == depth > maxDepth
\* The depth walkFiber gives the children of an included fiber ...
includedChildDepth(depth) == depth + 1
\* ... and of a skipped one.
skippedChildDepth_deeper(depth) == depth + 1
skippedChildDepth(depth) == depth

\* results.push(...items)
push_front(results, items) == items \o results
push(results, items) == results \o items

RECURSIVE walkFiber(_, _, _, _, _), walkChildren(_, _, _, _, _)
\* walkFiber(fiber, depth); st carries the closure's index counter and the
\* registry.  The answer is the results list with the new counter and registry.
walkFiber(f, depth, maxDepth, includeHtml, st) ==
  IF f = 0 \/ depthExceeded(depth, maxDepth)
  THEN [results |-> <<>>, index |-> st.index, fibers |-> st.fibers]
  ELSE LET fb == Fib(f) IN
  IF shouldInclude(fb, includeHtml)
  THEN LET fiberIndex == st.index
           kids == walkChildren(fb.child, includedChildDepth(depth), maxDepth, includeHtml,
                     [results |-> <<>>, index |-> st.index + 1,
                      fibers |-> ArraySet(st.fibers, fiberIndex, f)])
           node == [fiberIndex |-> fiberIndex,
                    name |-> getName("getComponentTree", fb),
                    type |-> typeOf("getComponentTree", fb.tag),
                    key |-> Coalesce(fb.key, Null),
                    depth |-> depth,
                    children |-> kids.results]
       IN [results |-> <<node>>, index |-> kids.index, fibers |-> kids.fibers]
  ELSE walkChildren(fb.child, skippedChildDepth(depth), maxDepth, includeHtml,
         [results |-> <<>>, index |-> st.index, fibers |-> st.fibers])

\* The loop "while (child) { push(...walkFiber(child, depth)); child = child.sibling }".
walkChildren(child, depth, maxDepth, includeHtml, acc) ==
  IF child = 0 THEN acc
  ELSE LET r == walkFiber(child, depth, maxDepth, includeHtml,
                  [index |-> acc.index, fibers |-> acc.fibers])
       IN walkChildren(fiber[child].sibling, depth, maxDepth, includeHtml,
            [results |-> push(acc.results, r.results), index |-> r.index, fibers |-> r.fibers])

\* The roots the two traversals start from, in order: for each renderer whose
\* getFiberRoots answers a set, each root's current fiber.
RECURSIVE rootFibers(_)
rootFibers(renderers) ==
  IF renderers = <<>> THEN <<>>
  ELSE (IF Head(renderers).hasRoots THEN Head(renderers).roots ELSE <<>>)
       \o rootFibers(Tail(renderers))

\* The loop over the roots: trees.push(...walkFiber(root.current, 0)).
RECURSIVE walkRoots(_, _, _, _)
walkRoots(roots, maxDepth, includeHtml, acc) ==
  IF roots = <<>> THEN acc
  ELSE LET r == walkFiber(Head(roots), 0, maxDepth, includeHtml,
                  [index |-> acc.index, fibers |-> acc.fibers])
       IN walkRoots(Tail(roots), maxDepth, includeHtml,
            [results |-> push(acc.results, r.results), index |-> r.index, fibers |-> r.fibers])

\* The registry getComponentTree starts from.
treeRegistry_merge(old) == old
treeRegistry(old) == <<>>

\* getComponentTree(page, maxDepth, includeHtml): the trees it returns and the
\* registry it leaves.
getComponentTree(maxDepth, includeHtml) ==
  IF ~hook.available THEN [trees |-> <<>>, registry |-> RDM_FIBERS]
  ELSE IF ~hook.hasRenderers
  THEN [trees |-> <<>>, registry |-> [defined |-> TRUE, arr |-> treeRegistry(RDM_FIBERS.arr)]]
  ELSE LET r == walkRoots(rootFibers(hook.renderers), maxDepth, includeHtml,
                  [results |-> <<>>, index |-> 0, fibers |-> treeRegistry(RDM_FIBERS.arr)])
       IN [trees |-> r.results, registry |-> [defined |-> TRUE, arr |-> r.fibers]]

\* The SummaryNodes of a forest in pre-order.
RECURSIVE Flatten(_)
Flatten(nodes) ==
  IF nodes = <<>> THEN <<>>
  ELSE <<Head(nodes)>> \o Flatten(Head(nodes).children) \o Flatten(Tail(nodes))

\* What the caller learns of handles from a list of results.
Reported(results) ==
  [i \in DOMAIN results |-> [fiberIndex |-> results[i].fiberIndex, name |-> results[i].name]]

GetComponentTree ==
  \E maxDepth \in (-1)..MaxDepthArg, includeHtml \in BOOLEAN :
    LET r == getComponentTree(maxDepth, includeHtml) IN
    /\ RDM_FIBERS' = r.registry
    /\ last' = [op |-> "getTree", maxDepth |-> maxDepth, includeHtml |-> includeHtml,
                ret |-> r.trees, before |-> RDM_FIBERS]
    /\ issued' = Reported(Flatten(r.trees))
    /\ UNCHANGED <<hook, fiber, heap, pvars>>

\* ---------------------------------------------------- searchComponents

\* The registry searchComponents starts from: "ensure fibers array exists".
searchRegistry(reg) == IF reg.defined THEN reg.arr ELSE <<>>

\* The guard at the head of search(): nothing is visited once the results
\* are full.
resultsFull_offByOne(results, maxResults) == Len(results) > maxResults
resultsFull(results, maxResults) == Len(results) >= maxResults

RECURSIVE search(_, _, _, _, _, _), searchChildren(_, _, _, _, _, _)
\* search(fiber, depth, parentName); st carries results, the index counter,
\* the registry, and the fibers visited so far in order (one per index++).
search(f, depth, parentName, lowerQuery, maxResults, st) ==
  IF f = 0 \/ resultsFull(st.results, maxResults) THEN st
  ELSE LET fb == Fib(f)
           name == getName("searchComponents", fb)
           fiberIndex == st.index
           hit == [fiberIndex |-> fiberIndex,
                   name |-> name,
                   type |-> typeOf("searchComponents", fb.tag),
                   depth |-> depth,
                   parentName |-> parentName,
                   key |-> Coalesce(fb.key, Null)]
           st1 == [results |-> IF includes(toLowerCase(name), lowerQuery)
                               THEN Append(st.results, hit) ELSE st.results,
                   index |-> st.index + 1,
                   fibers |-> ArraySet(st.fibers, fiberIndex, f),
                   visited |-> Append(st.visited, f)]
       IN searchChildren(fb.child, depth + 1, name, lowerQuery, maxResults, st1)

\* The loop "while (child && results.length < maxResults)".
searchChildren(child, depth, parentName, lowerQuery, maxResults, st) ==
  IF child = 0 \/ ~(Len(st.results) < maxResults) THEN st
  ELSE searchChildren(fiber[child].sibling, depth, parentName, lowerQuery, maxResults,
         search(child, depth, parentName, lowerQuery, maxResults, st))

\* The loop over the roots: search(root.current, 0, null).
RECURSIVE searchRoots(_, _, _, _)
searchRoots(roots, lowerQuery, maxResults, st) ==
  IF roots = <<>> THEN st
  ELSE searchRoots(Tail(roots), lowerQuery, maxResults,
         search(Head(roots), 0, Null, lowerQuery, maxResults, st))

\* searchComponents(page, query, maxResults): its results, the registry it
\* leaves and the fibers it visited.
searchComponents(query, maxResults) ==
  IF ~hook.available THEN [results |-> <<>>, registry |-> RDM_FIBERS, visited |-> <<>>]
  ELSE LET st0 == [results |-> <<>>, index |-> 0,
                   fibers |-> searchRegistry(RDM_FIBERS), visited |-> <<>>]
           st == IF ~hook.hasRenderers THEN st0
                 ELSE searchRoots(rootFibers(hook.renderers),
                                  toLowerCase(query), maxResults, st0)
       IN [results |-> st.results, registry |-> [defined |-> TRUE, arr |-> st.fibers],
           visited |-> st.visited]

\* The queries the model searches for.
Queries == {"", "aP"}

SearchComponents ==
  \E query \in Queries, maxResults \in 0..MaxResultsArg :
    LET r == searchComponents(query, maxResults) IN
    /\ RDM_FIBERS' = r.registry
    /\ last' = [op |-> "search", query |-> query, maxResults |-> maxResults,
                ret |-> r.results, visited |-> r.visited, before |-> RDM_FIBERS]
    /\ issued' = Reported(r.results)
    /\ UNCHANGED <<hook, fiber, heap, pvars>>

\* -------------------------------------------------------- safeSerialize

\* What a call gives when it throws.
Raise == [k |-> "raise"]
raised(r) == r.k = "raise"
\* The plain object the serializer builds: its keys in order.
Plain(entries) == [k |-> "plain", entries |-> entries]

MaxSerializeDepth == 3
ArraySlice == 10
KeySlice == 20

\* typeof v === "object" of a value that is not null.
isObject(v) == v.k \in {"htmlElement", "array", "element", "object", "hostile"}

\* The template literal of the React-element rule:
\* val.type?.displayName ?? val.type?.name ?? val.type ?? "unknown".
\* A Symbol in a template literal is a TypeError.
elementText(type) ==
  IF type.k = "null" THEN VString("[ReactElement: unknown]")
  ELSE IF type.k = "string" THEN VString("[ReactElement: " \o type.s \o "]")
  ELSE IF type.k = "symbol" THEN Raise
  ELSE VString("[ReactElement: "
         \o Coalesce(type.displayName, Coalesce(type.name, "[object Object]")) \o "]")

\* arr.slice(0, n)
slice_all(seq, n) == seq
slice(seq, n) == SubSeq(seq, 1, IF Len(seq) < n THEN Len(seq) ELSE n)

\* if (depth > 3) return "[max depth]"
tooDeep_atLimit(depth) == depth >= MaxSerializeDepth
tooDeep(depth) == depth > MaxSerializeDepth

\* try { result[k] = safeSerialize(val[k], depth + 1) } catch
\* { result[k] = "[unserializable]" }: read is what reading val[k] does, r
\* what serializing the value read gives.
keyCatch_none(read, r) == IF read = "throws" THEN Raise ELSE r
keyCatch(read, r) ==
  IF read = "throws" \/ raised(r) THEN VString("[unserializable]") ELSE r

RECURSIVE safeSerialize(_, _)
\* safeSerialize(val, depth): the plain value, or Raise when it throws.
safeSerialize(val, depth) ==
  LET v == Deref(val) IN
  IF tooDeep(depth) THEN VString("[max depth]")
  ELSE IF v.k \in {"null", "undefined"} THEN v
  ELSE IF v.k = "function"
  THEN VString("[Function: " \o (IF v.name = "" THEN "anonymous" ELSE v.name) \o "]")
  ELSE IF v.k = "symbol" THEN VString("Symbol(" \o v.description \o ")")
  ELSE IF v.k = "htmlElement"
  THEN VString("[" \o toLowerCase(v.tagName) \o "." \o v.className \o "]")
  ELSE IF ~isObject(v) THEN v
  ELSE IF v.k = "array"
  THEN \* val.slice(0, 10).map(...): a throw inside map leaves map
       LET items == slice(v.items, ArraySlice)
           rs == [i \in DOMAIN items |-> safeSerialize(items[i], depth + 1)]
       IN IF \E i \in DOMAIN rs : raised(rs[i]) THEN Raise ELSE VArray(rs)
  ELSE IF v.k = "hostile" THEN Raise
  ELSE IF v.k = "element" THEN elementText(v.type)
  ELSE \* the loop over Object.keys(val).slice(0, 20), a try/catch per key
       LET keys == slice(v.keys, KeySlice)
           entries == [i \in DOMAIN keys |->
                        [key |-> keys[i].name,
                         value |-> keyCatch(keys[i].read,
                                            safeSerialize(keys[i].ref, depth + 1))]]
       IN IF \E i \in DOMAIN entries : raised(entries[i].value)
          THEN Raise ELSE Plain(entries)

\* ---------------------------------------------------- inspectComponent

\* fibers[idx] of inspectComponent and modifyState: the fiber registered
\* under idx, or 0 when the registry is missing or has nothing there.
lookup_clamped(reg, idx) ==
  IF reg.defined /\ idx >= 0 /\ idx < Len(reg.arr) THEN reg.arr[idx + 1]
  ELSE IF reg.defined /\ idx >= 0 /\ Len(reg.arr) > 0 THEN reg.arr[Len(reg.arr)] ELSE 0
lookup(reg, idx) ==
  IF reg.defined /\ idx >= 0 /\ idx < Len(reg.arr) THEN reg.arr[idx + 1] ELSE 0

\* A reference that is neither null nor undefined.
present(ref) == ref # Null /\ ref # Undef

\* state.queue.lastRenderedReducer?.name
reducerName(queue) ==
  LET r == getKey(Deref(queue), "lastRenderedReducer")
  IN IF present(r) THEN Deref(r).name ELSE Undef

\* One HookInfo of extractHooks: its type by the shape of the record, and
\* its serialized value.
hookInfo_effectFirst(state, i) ==
  LET rec == Deref(state)
      queue == getKey(rec, "queue")
      ms == getKey(rec, "memoizedState")
      v == Deref(ms)
  IN IF isObject(v) /\ hasKey(v, "destroy")
     THEN [index |-> i, type |-> "useEffect",
           value |-> IF present(getKey(v, "deps"))
                     THEN safeSerialize(getKey(v, "deps"), 0) ELSE VNull]
     ELSE IF present(queue)
     THEN [index |-> i,
           type |-> IF reducerName(queue) = "basicStateReducer"
                    THEN "useState" ELSE "useReducer",
           value |-> safeSerialize(ms, 0)]
     ELSE IF isObject(v) /\ hasKey(v, "current")
     THEN [index |-> i, type |-> "useRef", value |-> safeSerialize(getKey(v, "current"), 0)]
     ELSE IF v.k = "array" /\ Len(v.items) = 2
     THEN [index |-> i, type |-> "useMemo/useCallback", value |-> safeSerialize(v.items[1], 0)]
     ELSE [index |-> i, type |-> "unknown", value |-> safeSerialize(ms, 0)]
hookInfo(state, i) ==
  LET rec == Deref(state)
      queue == getKey(rec, "queue")
      ms == getKey(rec, "memoizedState")
      v == Deref(ms)
  IN IF present(queue)
     THEN [index |-> i,
           type |-> IF reducerName(queue) = "basicStateReducer"
                    THEN "useState" ELSE "useReducer",
           value |-> safeSerialize(ms, 0)]
     ELSE IF isObject(v) /\ hasKey(v, "destroy")
     THEN [index |-> i, type |-> "useEffect",
           value |-> IF present(getKey(v, "deps"))
                     THEN safeSerialize(getKey(v, "deps"), 0) ELSE VNull]
     ELSE IF isObject(v) /\ hasKey(v, "current")
     THEN [index |-> i, type |-> "useRef", value |-> safeSerialize(getKey(v, "current"), 0)]
     ELSE IF v.k = "array" /\ Len(v.items) = 2
     THEN [index |-> i, type |-> "useMemo/useCallback", value |-> safeSerialize(v.items[1], 0)]
     ELSE [index |-> i, type |-> "unknown", value |-> safeSerialize(ms, 0)]

\* The loop "while (state) { ...; hooks.push(hook); state = state.next; i++ }".
RECURSIVE hooksFrom(_, _)
hooksFrom(state, i) ==
  IF ~present(state) THEN <<>>
  ELSE <<hookInfo(state, i)>> \o hooksFrom(getKey(Deref(state), "next"), i + 1)

\* extractHooks(fiber): the HookInfo list, or Raise when a serialization throws.
extractHooks_firstOnly(fb) ==
  IF fb.tag \notin {0, 10, 11} \/ ~present(fb.memoizedState) THEN <<>>
  ELSE <<hookInfo(fb.memoizedState, 0)>>
extractHooks(fb) ==
  IF fb.tag # 0 /\ fb.tag # 10 /\ fb.tag # 11 THEN <<>>
  ELSE hooksFrom(fb.memoizedState, 0)

\* extractClassState(fiber)
extractClassState(fb) ==
  IF fb.tag = 1 /\ fb.stateNode.k # "null" THEN safeSerialize(fb.stateNode.state, 0)
  ELSE VNull

RECURSIVE childNames(_)
childNames(child) ==
  IF child = 0 THEN <<>>
  ELSE <<getName("inspectComponent", Fib(child))>> \o childNames(fiber[child].sibling)

\* "Find rendered host element": down the first children from the fiber to
\* the first HostComponent fiber that has a stateNode.
RECURSIVE renderedHostElement(_)
renderedHostElement(current) ==
  IF current = 0 THEN Null
  ELSE IF Fib(current).tag = 5 /\ Fib(current).stateNode.k # "null"
  THEN (IF Fib(current).stateNode.tagName = Undef THEN Null
        ELSE toLowerCase(Fib(current).stateNode.tagName))
  ELSE renderedHostElement(fiber[current].child)

\* inspectComponent(page, fiberIndex): null when the handle is not found, the
\* ComponentInfo, or Raise when a top-level serialization throws inside
\* page.evaluate.
\* This is the body of the function, on the registry it finds in the page.
inspectIn(registry, idx) ==
  LET f == lookup(registry, idx) IN
  IF f = 0 THEN VNull
  ELSE LET fb == Fib(f)
           propsRef == Coalesce(fb.memoizedProps, fb.pendingProps)
           props == IF present(propsRef) THEN safeSerialize(propsRef, 0) ELSE Plain(<<>>)
           state == IF fb.tag = 1 THEN extractClassState(fb)
                    ELSE safeSerialize(fb.memoizedState, 0)
           hooks == extractHooks(fb)
           owner == debugOwner(f)
           context == IF owner # 0
                      THEN Plain(<<[key |-> "owner",
                                    value |-> VString(getName("inspectComponent", Fib(owner)))]>>)
                      ELSE Plain(<<>>)
       IN IF raised(props) \/ raised(state) \/ (\E i \in DOMAIN hooks : raised(hooks[i].value))
          THEN Raise
          ELSE [k |-> "info",
                fiberIndex |-> idx,
                name |-> getName("inspectComponent", fb),
                type |-> typeOf("inspectComponent", fb.tag),
                key |-> Coalesce(fb.key, Null),
                props |-> props,
                state |-> state,
                hooks |-> hooks,
                context |-> context,
                parentName |-> IF fb.return # 0
                               THEN getName("inspectComponent", Fib(fb.return)) ELSE Null,
                childNames |-> childNames(fb.child),
                source |-> IF fb.debugSource.fileName # Undef
                           THEN [fb.debugSource EXCEPT
                                   !.columnNumber = Coalesce(fb.debugSource.columnNumber, "0")]
                           ELSE NoSource,
                renderedHostElement |-> renderedHostElement(f)]

\* inspectComponent(page, fiberIndex)
inspectComponent(idx) == inspectIn(RDM_FIBERS, idx)

\* Handles the model asks about: one below and one above every handle a
\* registry of MaxFibers fibers can hold.
Handles == (-1)..MaxFibers

InspectComponent_unhooking ==
  \E idx \in Handles :
    /\ last' = [op |-> "inspect", idx |-> idx, ret |-> inspectComponent(idx),
                before |-> RDM_FIBERS]
    /\ onCommitFiberRoot' = NoCallback
    /\ UNCHANGED <<hook, fiber, heap, RDM_FIBERS, issued, rdm_original_onCommitFiberRoot,
                   RDM_PROFILER_DATA, alternate, actualDuration, session>>
InspectComponent ==
  \E idx \in Handles :
    /\ last' = [op |-> "inspect", idx |-> idx, ret |-> inspectComponent(idx),
                before |-> RDM_FIBERS]
    /\ UNCHANGED <<hook, fiber, heap, RDM_FIBERS, issued, pvars>>

\* ---------------------------------------------------------- modifyState

\* "while (state && i < hookIdx) { state = state.next; i++ }": the record
\* reached, Null or Undef past the end of the chain.
RECURSIVE walkHooks_offByOne(_, _, _)
walkHooks_offByOne(state, i, hookIdx) ==
  IF present(state) /\ i <= hookIdx
  THEN walkHooks_offByOne(getKey(Deref(state), "next"), i + 1, hookIdx)
  ELSE state
RECURSIVE walkHooks(_, _, _)
walkHooks(state, i, hookIdx) ==
  IF present(state) /\ i < hookIdx
  THEN walkHooks(getKey(Deref(state), "next"), i + 1, hookIdx)
  ELSE state

\* state.queue && typeof state.queue.dispatch === "function"
hasDispatch(state) ==
  LET queue == getKey(Deref(state), "queue")
  IN present(queue) /\ Deref(getKey(Deref(queue), "dispatch")).k = "function"

NotFoundError == "Fiber not found. Run get_component_tree first."
HookNotFoundError(hookIdx) == "Hook at index " \o ToString(hookIdx) \o " not found."
NoDispatchError == "Hook does not have a dispatch function (not useState/useReducer)."
NotStatefulError == "Component is not a class or function component."
\* e.message of what the target's own code throws.
TargetMessage == "target error"

Success == [success |-> TRUE, error |-> Undef]
Failure(msg) == [success |-> FALSE, error |-> msg]

\* try { call; return { success: true } } catch (e) { return { success: false,
\* error: e.message } }: what modifyState answers after calling into the target.
caught_rethrow(raises) == IF raises THEN Raise ELSE Success
caught(raises) == IF raises THEN Failure(TargetMessage) ELSE Success

\* The handle check of modifyState.
handleMissing(reg, idx) == lookup(reg, idx) = 0

\* The kinds modifyState treats as function components.
isFunctionFamily_anyKind(tag) == tag \in {0, 3, 10, 11, 14}
isFunctionFamily(tag) == tag \in {0, 10, 11}

\* modifyState(page, fiberIndex, hookIndex, newValue): its result and the
\* calls it makes into the target (setState of an instance, dispatch of the
\* queue of a chain record); raises: the target's function throws when called.
modifyState(idx, hookIdx, value, raises) ==
  IF handleMissing(RDM_FIBERS, idx)
  THEN [ret |-> Failure(NotFoundError), calls |-> <<>>]
  ELSE LET f == lookup(RDM_FIBERS, idx)
           fb == Fib(f)
           state == walkHooks(fb.memoizedState, 0, hookIdx)
       IN IF fb.tag = 1 /\ fb.stateNode.k # "null" /\ fb.stateNode.setState
          THEN [ret |-> caught(raises),
                calls |-> <<[fiber |-> f, fn |-> "setState", record |-> Null,
                             value |-> value, raised |-> raises]>>]
          ELSE IF isFunctionFamily(fb.tag)
          THEN IF ~present(state)
               THEN [ret |-> Failure(HookNotFoundError(hookIdx)), calls |-> <<>>]
               ELSE IF hasDispatch(state)
               THEN [ret |-> caught(raises),
                     calls |-> <<[fiber |-> f, fn |-> "dispatch", record |-> state,
                                  value |-> value, raised |-> raises]>>]
               ELSE [ret |-> Failure(NoDispatchError), calls |-> <<>>]
          ELSE [ret |-> Failure(NotStatefulError), calls |-> <<>>]

HookArgs == (-1)..MaxHookArg
Values == {"v"}

\* Whether the target's function throws is the target's choice, made when
\* modifyState calls it.
ModifyState ==
  \E idx \in Handles, hookIdx \in HookArgs, value \in Values :
  \E raises \in (IF modifyState(idx, hookIdx, value, FALSE).calls = <<>>
                 THEN {FALSE} ELSE BOOLEAN) :
    LET r == modifyState(idx, hookIdx, value, raises) IN
    /\ last' = [op |-> "mutate", idx |-> idx, hookIdx |-> hookIdx, value |-> value,
                ret |-> r.ret, calls |-> r.calls, before |-> RDM_FIBERS]
    /\ UNCHANGED <<hook, fiber, heap, RDM_FIBERS, issued, pvars>>

\* ------------------------------------------------------------- profiler

\* How often the profiler may be started without a stop, how many commits a
\* session records, and the largest duration a fiber reports.
MaxStarts == 2
MaxCommits == 2
MaxDuration == 2

\* typeof original === "function"
forwards_targetOnly(original) == original.k = "function"
forwards(original) == original.k \in {"function", "wrapper"}

\* The number of wrappers around a callback.
RECURSIVE WrapDepth(_)
WrapDepth(cb) == IF cb.k = "wrapper" THEN 1 + WrapDepth(cb.original) ELSE 0

\* fiber.type?.displayName ?? fiber.type?.name ?? "Anonymous"
profilerName(fb) == Coalesce(fb.type.displayName, Coalesce(fb.type.name, "Anonymous"))

\* (fiber.tag === 0 || fiber.tag === 1) && fiber.alternate
tallied_mounts(f, alt) == Fib(f).tag \in {0, 1}
tallied(f, alt) == Fib(f).tag \in {0, 1} /\ f \in alt

\* The position of data[name] among the entries, 0 when data has none.
entryOf(entries, name) ==
  LET at == {i \in DOMAIN entries : entries[i].name = name}
  IN IF at = {} THEN 0 ELSE Min(at)

\* if (!data[name]) data[name] = {renderCount: 0, totalDuration: 0};
\* data[name].renderCount++; if (fiber.actualDuration) totalDuration += it
tally(entries, name, duration) ==
  LET with == IF entryOf(entries, name) = 0
              THEN Append(entries, [name |-> name, renderCount |-> 0, totalDuration |-> 0])
              ELSE entries
      i == entryOf(with, name)
  IN [with EXCEPT ![i].renderCount = @ + 1, ![i].totalDuration = @ + duration]

\* walk(fiber) of the wrapper, and its loop over the children.  Reading
\* data[name] when window.__RDM_PROFILER_DATA__ is undefined raises.
RECURSIVE walk(_, _, _), walkSiblings(_, _, _)
walk(f, alt, acc) ==
  IF f = 0 \/ acc.raised THEN acc
  ELSE IF tallied(f, alt) /\ ~acc.data.defined
  THEN [data |-> acc.data, raised |-> TRUE]
  ELSE walkSiblings(fiber[f].child, alt,
         [data |-> IF tallied(f, alt)
                   THEN [acc.data EXCEPT !.entries =
                           tally(@, profilerName(Fib(f)), actualDuration[f])]
                   ELSE acc.data,
          raised |-> FALSE])
walkSiblings(child, alt, acc) ==
  IF child = 0 \/ acc.raised THEN acc
  ELSE walkSiblings(fiber[child].sibling, alt, walk(child, alt, acc))

\* What the target's own callback answers.
TargetReturn == "committed"

\* A call of hook.onCommitFiberRoot with receiver and arguments args: the
\* data it leaves, the calls the target's own callback receives, the order of
\* tallying and forwarding, and what the call answers or that it raises.
RECURSIVE invoke(_, _, _, _)
invoke(cb, args, alt, data) ==
  IF cb.k = "function"
  THEN [data |-> data, calls |-> <<args>>, events |-> <<"original">>,
        raised |-> FALSE, ret |-> TargetReturn]
  ELSE LET t == walk(args.root, alt, [data |-> data, raised |-> FALSE]) IN
       IF t.raised
       THEN [data |-> data, calls |-> <<>>, events |-> <<"raise">>,
             raised |-> TRUE, ret |-> Undef]
       ELSE IF forwards(cb.original)
       THEN LET o == invoke(cb.original, args, alt, t.data)
            IN [o EXCEPT !.events = <<"tally">> \o @]
       ELSE [data |-> t.data, calls |-> <<>>, events |-> <<"tally">>,
             raised |-> FALSE, ret |-> Undef]

\* startProfiler(page)
StartProfiler ==
  /\ session.starts < MaxStarts /\ WrapDepth(onCommitFiberRoot) < MaxStarts
  /\ RDM_PROFILER_DATA' = [defined |-> TRUE, entries |-> <<>>]
  /\ IF hook.available
     THEN /\ rdm_original_onCommitFiberRoot' = onCommitFiberRoot
          /\ onCommitFiberRoot' = Wrapper(onCommitFiberRoot)
     ELSE UNCHANGED <<rdm_original_onCommitFiberRoot, onCommitFiberRoot>>
  /\ session' = [starts |-> session.starts + 1, commits |-> <<>>]
  /\ last' = [op |-> "start", ret |-> Undef, before |-> onCommitFiberRoot]
  /\ UNCHANGED <<hook, fiber, heap, RDM_FIBERS, issued, alternate, actualDuration>>

\* hook && hook.__rdm_original_onCommitFiberRoot
restorable_always(original) == TRUE
restorable(original) == hook.available /\ original.k \in {"function", "wrapper"}

\* Math.round(x * 100) / 100 of the quotient x = n / d, in hundredths.
\* Durations are counted in units of 0.005 ms, half a hundredth, so that the
\* rounding has something to round; Math.round rounds a half upwards.
roundedHundredths_floor(n, d) == n \div (2 * d)
roundedHundredths(n, d) == (n + d) \div (2 * d)

\* One entry of the results; the two durations are in hundredths.
resultOf(entry) ==
  [componentName |-> entry.name,
   renderCount |-> entry.renderCount,
   totalDuration |-> roundedHundredths(entry.totalDuration, 1),
   avgDuration |-> IF entry.renderCount > 0
                   THEN roundedHundredths(entry.totalDuration, entry.renderCount)
                   ELSE 0]

\* The comparison of results.sort((a, b) => b.renderCount - a.renderCount):
\* a stays in front of b.
inFront_ascending(a, b) == a.renderCount <= b.renderCount
inFront(a, b) == a.renderCount >= b.renderCount

\* results.sort(...): the sort is stable.
RECURSIVE insertSorted(_, _)
insertSorted(sorted, x) ==
  IF sorted = <<>> THEN <<x>>
  ELSE IF inFront(sorted[Len(sorted)], x) THEN Append(sorted, x)
  ELSE Append(insertSorted(SubSeq(sorted, 1, Len(sorted) - 1), x), sorted[Len(sorted)])
RECURSIVE sort(_)
sort(results) ==
  IF results = <<>> THEN <<>>
  ELSE insertSorted(sort(SubSeq(results, 1, Len(results) - 1)), results[Len(results)])

\* The list stopProfiler answers for the data it finds.
stopResults(data) == sort([i \in DOMAIN data.entries |-> resultOf(data.entries[i])])

\* stopProfiler(page)
StopProfiler ==
  /\ IF restorable(rdm_original_onCommitFiberRoot)
     THEN /\ onCommitFiberRoot' = rdm_original_onCommitFiberRoot
          /\ rdm_original_onCommitFiberRoot' = Absent
     ELSE UNCHANGED <<rdm_original_onCommitFiberRoot, onCommitFiberRoot>>
  /\ RDM_PROFILER_DATA' = NoData
  /\ session' = NoSession
  /\ last' = [op |-> "stop", ret |-> stopResults(RDM_PROFILER_DATA),
              before |-> onCommitFiberRoot, data |-> RDM_PROFILER_DATA,
              session |-> session]
  /\ UNCHANGED <<hook, fiber, heap, RDM_FIBERS, issued, alternate, actualDuration>>

\* The component fibers below a fiber, itself included.
RECURSIVE Below(_)
Below(f) == {f} \cup UNION {Below(c) : c \in {n \in Fibers : fiber[n].return = f}}
Components(root) == {f \in Below(root) : Fib(f).tag \in {0, 1}}

\* The renderer that owns a root: its position among hook.renderers.
rendererOf(root) ==
  Min({i \in DOMAIN hook.renderers :
         \E j \in DOMAIN hook.renderers[i].roots : hook.renderers[i].roots[j] = root})

\* The target commits a root: the component fibers of the set rendered
\* re-render (each has an alternate from then on) and the target calls
\* hook.onCommitFiberRoot(id, root, priority), if it is there.
Priorities == {"<undefined>", "normal"}
Commit ==
  /\ hook.available
  /\ Len(session.commits) < MaxCommits
  /\ \E i \in DOMAIN rootFibers(hook.renderers), priority \in Priorities :
     \E rendered \in {R \in SUBSET Components(rootFibers(hook.renderers)[i]) :
                        Cardinality(R) <= 1} :
       LET root == rootFibers(hook.renderers)[i]
           args == [this |-> "hook", id |-> rendererOf(root), root |-> root,
                    rest |-> priority]
           r == IF onCommitFiberRoot.k = "undefined"
                THEN [data |-> RDM_PROFILER_DATA, calls |-> <<>>, events |-> <<>>,
                      raised |-> FALSE, ret |-> Undef]
                ELSE invoke(onCommitFiberRoot, args, alternate \cup rendered,
                            RDM_PROFILER_DATA)
       IN /\ alternate' = alternate \cup rendered
          /\ RDM_PROFILER_DATA' = r.data
          /\ last' = [op |-> "commit", args |-> args, rendered |-> rendered,
                      calls |-> r.calls, events |-> r.events, raised |-> r.raised,
                      ret |-> r.ret, before |-> onCommitFiberRoot,
                      data |-> RDM_PROFILER_DATA]
          /\ session' = IF session.starts > 0
                        THEN [session EXCEPT !.commits =
                                Append(@, rendered)]
                        ELSE session
  /\ UNCHANGED <<hook, fiber, heap, RDM_FIBERS, issued, onCommitFiberRoot,
                 rdm_original_onCommitFiberRoot, actualDuration>>

\* ---------------------------------------------------------- detectReact

\* first?.version ?? first?.currentDispatcherRef ? "18+" : null, which reads
\* (first?.version ?? first?.currentDispatcherRef) ? "18+" : null
reactVersion(first) ==
  IF (IF first.version # Undef THEN first.version # "" ELSE first.currentDispatcherRef)
  THEN "18+" ELSE Null

\* The sum of roots.size over the renderers whose getFiberRoots answers a set.
RECURSIVE countRoots(_)
countRoots(renderers) ==
  IF renderers = <<>> THEN 0
  ELSE (IF Head(renderers).hasRoots THEN Len(Head(renderers).roots) ELSE 0)
       + countRoots(Tail(renderers))

\* !!hook
hookAvailable_always == TRUE
hookAvailable == hook.available

\* detectReact(page)
detectReact ==
  IF ~hookAvailable
  THEN [reactDetected |-> FALSE, reactVersion |-> Null, rootCount |-> 0,
        hookAvailable |-> FALSE]
  ELSE [reactDetected |-> hook.hasRenderers /\ Len(hook.renderers) > 0,
        reactVersion |-> IF hook.hasRenderers /\ Len(hook.renderers) > 0
                         THEN reactVersion(hook.renderers[1]) ELSE Null,
        rootCount |-> IF hook.hasRenderers THEN countRoots(hook.renderers) ELSE 0,
        hookAvailable |-> TRUE]

\* ------------------------------------------------ the browser session

\* The urls of the pages Chrome may have open, and the lists browser.pages()
\* may answer: up to MaxPages pages, no page twice.
MaxPages == 2
PageUrls == {"about:blank", "chrome://newtab/", ThePage, "other"}
PageLists ==
  { ps \in UNION { [1..n -> PageUrls] : n \in 0..MaxPages } :
      \A i, j \in DOMAIN ps : i # j => ps[i] # ps[j] }
\* What an awaited browser.pages() settles with.
PagesOutcomes ==
  { [rejects |-> TRUE, pages |-> <<>>] }
  \cup { [rejects |-> FALSE, pages |-> ps] : ps \in PageLists }

\* pages.find(p => url !== "about:blank" && url !== "chrome://newtab/")
\*   ?? pages[0] ?? null
notBlank(url) == url # "about:blank" /\ url # "chrome://newtab/"
RECURSIVE findNotBlank(_)
findNotBlank(pages) ==
  IF pages = <<>> THEN Undef
  ELSE IF notBlank(Head(pages)) THEN Head(pages)
  ELSE findNotBlank(Tail(pages))
pickPage(pages) ==
  Coalesce(Coalesce(findNotBlank(pages), IF pages = <<>> THEN Undef ELSE pages[1]),
           NoPage)

\* pages.find(p => p.url().toLowerCase().includes(urlSubstring.toLowerCase()))
RECURSIVE findMatch(_, _)
findMatch(pages, urlSubstring) ==
  IF pages = <<>> THEN Undef
  ELSE IF includes(toLowerCase(Head(pages)), toLowerCase(urlSubstring)) THEN Head(pages)
  ELSE findMatch(Tail(pages), urlSubstring)

NotConnectedError == "Not connected to Chrome. Call connect_to_browser tool first."
NoPagesError == "No open pages found in Chrome. Open a page first."
ConnectError == "Failed to fetch browser webSocket URL"
PagesError == "Protocol error: Target closed"
NoMatchError == "No page matching"

\* How a call of the module ended.
Returned(op, ret) == [op |-> op, threw |-> FALSE, ret |-> ret, error |-> Undef]
Threw(op, error) == [op |-> op, threw |-> TRUE, ret |-> Undef, error |-> error]

\* getPage()
getPage ==
  IF activePage = NoPage THEN Threw("getPage", NotConnectedError)
  ELSE Returned("getPage", activePage)

\* isConnected()
isConnected == browser # NoBrowser /\ activePage # NoPage

Frame == UNCHANGED <<hook, fiber, heap, RDM_FIBERS, issued, pvars, response>>

\* connect(port) up to its first await: browser.version() when a browser is
\* held, puppeteer.connect() otherwise.
ConnectCall ==
  /\ pending.connect = "idle"
  /\ pending' = [pending EXCEPT !.connect = IF browser # NoBrowser THEN "version"
                                            ELSE "connect"]
  /\ UNCHANGED <<browser, activePage, last>>
  /\ Frame

\* await browser.version() settles; its rejection is caught and drops the
\* browser and the page.  Then `if (!browser)` reads the variable as it is.
VersionSettled ==
  /\ pending.connect = "version"
  /\ \E ok \in BOOLEAN :
       /\ browser' = IF ok THEN browser ELSE NoBrowser
       /\ activePage' = IF ok THEN activePage ELSE NoPage
       /\ pending' = [pending EXCEPT !.connect = IF browser' = NoBrowser THEN "connect"
                                                 ELSE "pages"]
  /\ UNCHANGED last
  /\ Frame

\* await puppeteer.connect() settles: the browser is kept and the
\* "disconnected" listener registered, or connect() throws.
ConnectSettled ==
  /\ pending.connect = "connect"
  /\ \E ok \in BOOLEAN :
       IF ok
       THEN /\ browser' = TheBrowser
            /\ pending' = [pending EXCEPT !.connect = "pages"]
            /\ UNCHANGED last
       ELSE /\ pending' = [pending EXCEPT !.connect = "idle"]
            /\ last' = Threw("connect", ConnectError)
            /\ UNCHANGED browser
  /\ UNCHANGED activePage
  /\ Frame

\* await browser.pages() settles in connect(): the page is picked, and
\* connect() throws when there is none.
PagesSettled ==
  /\ pending.connect = "pages"
  /\ \E outcome \in PagesOutcomes :
       IF outcome.rejects
       THEN /\ last' = Threw("connect", PagesError)
            /\ UNCHANGED activePage
       ELSE /\ activePage' = pickPage(outcome.pages)
            /\ last' = IF activePage' = NoPage THEN Threw("connect", NoPagesError)
                       ELSE Returned("connect", activePage')
  /\ pending' = [pending EXCEPT !.connect = "idle"]
  /\ UNCHANGED browser
  /\ Frame

\* switchPage(urlSubstring) up to its await.
SwitchPageCall ==
  /\ pending.switchPage = "idle"
  /\ IF browser = NoBrowser
     THEN /\ last' = Threw("switchPage", NotConnectedError)
          /\ UNCHANGED pending
     ELSE /\ pending' = [pending EXCEPT !.switchPage = "pages"]
          /\ UNCHANGED last
  /\ UNCHANGED <<browser, activePage>>
  /\ Frame

\* The urlSubstring arguments.
UrlSubstrings == {"Pa", "o", "zz"}

\* await browser.pages() settles in switchPage().
SwitchPageSettled ==
  /\ pending.switchPage = "pages"
  /\ \E outcome \in PagesOutcomes, urlSubstring \in UrlSubstrings :
       LET match == findMatch(outcome.pages, urlSubstring)
       IN IF outcome.rejects
          THEN /\ last' = Threw("switchPage", PagesError)
               /\ UNCHANGED activePage
          ELSE IF match = Undef
          THEN /\ last' = Threw("switchPage", NoMatchError)
               /\ UNCHANGED activePage
          ELSE /\ activePage' = match
               /\ last' = Returned("switchPage", match)
  /\ pending' = [pending EXCEPT !.switchPage = "idle"]
  /\ UNCHANGED browser
  /\ Frame

\* disconnect()
Disconnect ==
  /\ browser' = NoBrowser
  /\ activePage' = IF browser # NoBrowser THEN NoPage ELSE activePage
  /\ last' = Returned("disconnect", Undef)
  /\ UNCHANGED pending
  /\ Frame

\* -------------------------------------------------------- tool handlers

\* What a handler answers: content text and the isError flag; the text is
\* kept as its fixed part and the value it prints.
Response(isError, text, value) ==
  [k |-> "response", isError |-> isError, text |-> text, value |-> value]

\* The message of the error page.evaluate rejects with when the page is gone.
EvaluateError == "Execution context was destroyed."
\* The message of the TypeError the serializer raises in the page.
SerializeError == "Cannot convert a Symbol value to a string"

\* catch (error) { return { content: [`Error: ${error.message}`], isError: true } }
catchError_rethrow(message) == Raise
catchError(message) == Response(TRUE, "Error: ", message)

\* An exported function that was not called, or whose evaluate was rejected.
NotCalled(tool) == [op |-> "none", tool |-> tool]

\* The part every handler shares: getPage() throws when no page is active,
\* and page.evaluate rejects when the page is gone; the handler's catch turns
\* both into an error response, and nothing in the page has run.
Refused(tool, rejects) ==
  /\ activePage = NoPage \/ rejects
  /\ response' = catchError(IF activePage = NoPage THEN NotConnectedError
                            ELSE EvaluateError)
  /\ last' = NotCalled(tool)
  /\ UNCHANGED <<hook, fiber, heap, RDM_FIBERS, issued, pvars, bvars>>

\* connect(port): fails when Chrome is not there or has no page, and then no
\* page is active; otherwise the page it picks is the active page.
ConnectOutcomes == {"connected", "refused", "noPages"}

\* connect_to_browser
ConnectTool ==
  \E outcome \in ConnectOutcomes, rejects \in BOOLEAN :
    /\ pending = Idle
    /\ browser' = IF outcome = "refused" THEN NoBrowser ELSE TheBrowser
    /\ activePage' = IF outcome = "connected" THEN ThePage ELSE NoPage
    /\ UNCHANGED pending
    /\ response' = IF outcome # "connected" THEN Response(TRUE, "Failed to connect: ", outcome)
                   ELSE IF rejects THEN Response(TRUE, "Failed to connect: ", EvaluateError)
                   ELSE Response(FALSE, "connected", detectReact)
    /\ last' = IF outcome = "connected" /\ ~rejects
               THEN [op |-> "detect", ret |-> detectReact]
               ELSE NotCalled("connect_to_browser")
    /\ UNCHANGED <<hook, fiber, heap, RDM_FIBERS, issued, pvars>>

\* browser.on("disconnected", ...) and disconnect()
Disconnected ==
  /\ browser # NoBrowser
  /\ browser' = NoBrowser
  /\ activePage' = NoPage
  /\ last' = [op |-> "disconnected"]
  /\ UNCHANGED <<hook, fiber, heap, RDM_FIBERS, issued, pvars, pending, response>>

\* get_component_tree
GetComponentTreeTool ==
  \/ \E rejects \in BOOLEAN : Refused("get_component_tree", rejects)
  \/ /\ activePage # NoPage
     /\ GetComponentTree
     /\ response' = IF last'.ret = <<>>
                    THEN Response(FALSE, "No React components found.", Undef)
                    ELSE Response(FALSE, "json", last'.ret)
     /\ UNCHANGED bvars

\* search_components
SearchComponentsTool ==
  \/ \E rejects \in BOOLEAN : Refused("search_components", rejects)
  \/ /\ activePage # NoPage
     /\ SearchComponents
     /\ response' = IF last'.ret = <<>>
                    THEN Response(FALSE, "No components matching", last'.query)
                    ELSE Response(FALSE, "json", last'.ret)
     /\ UNCHANGED bvars

\* What inspect_component answers for the outcome of inspectComponent.
inspectResponse(info, targetIndex) ==
  IF raised(info) THEN catchError(SerializeError)
  ELSE IF info.k = "null" THEN Response(TRUE, "Fiber at index not found.", targetIndex)
  ELSE Response(FALSE, "json", info)

\* The instanceIndex argument; undefined reads as 0.
InstanceArgs == {0, 1}

\* inspect_component: with a fiberIndex it inspects that handle; with only a
\* componentName it first runs searchComponents(page, componentName, 10),
\* which rewrites the registry, and inspects the handle of the chosen result.
\* The caller is not told the handles of that search.
InspectComponentTool ==
  \/ \E rejects \in BOOLEAN : Refused("inspect_component", rejects)
  \/ /\ activePage # NoPage
     /\ InspectComponent
     /\ response' = inspectResponse(last'.ret, last'.idx)
     /\ UNCHANGED bvars
  \/ /\ activePage # NoPage
     /\ \E componentName \in Queries \ {""}, idx \in InstanceArgs :
          LET r == searchComponents(componentName, 10) IN
          /\ RDM_FIBERS' = r.registry
          /\ UNCHANGED <<hook, fiber, heap, issued, pvars, bvars>>
          /\ IF r.results = <<>>
             THEN /\ response' = Response(FALSE, "No component matching", componentName)
                  /\ last' = [op |-> "search", query |-> componentName, maxResults |-> 10,
                              ret |-> r.results, visited |-> r.visited,
                              before |-> RDM_FIBERS]
             ELSE IF idx >= Len(r.results)
             THEN /\ response' = Response(FALSE, "Only n instances found", Len(r.results))
                  /\ last' = [op |-> "search", query |-> componentName, maxResults |-> 10,
                              ret |-> r.results, visited |-> r.visited,
                              before |-> RDM_FIBERS]
             ELSE /\ last' = [op |-> "inspect", idx |-> r.results[idx + 1].fiberIndex,
                              ret |-> inspectIn(r.registry, r.results[idx + 1].fiberIndex),
                              before |-> RDM_FIBERS]
                  /\ response' = inspectResponse(last'.ret, last'.idx)

\* modify_state: after a successful modifyState it inspects the fiber again.
ModifyStateTool ==
  \/ \E rejects \in BOOLEAN : Refused("modify_state", rejects)
  \/ /\ activePage # NoPage
     /\ ModifyState
     /\ response' = IF ~last'.ret.success
                    THEN Response(TRUE, "Failed to modify state: ", last'.ret.error)
                    ELSE IF raised(inspectComponent(last'.idx))
                    THEN catchError(SerializeError)
                    ELSE Response(FALSE, "json", inspectComponent(last'.idx))
     /\ UNCHANGED bvars

\* start_profiler
StartProfilerTool ==
  \/ \E rejects \in BOOLEAN : Refused("start_profiler", rejects)
  \/ /\ activePage # NoPage
     /\ StartProfiler
     /\ response' = Response(FALSE, "Profiler started.", Undef)
     /\ UNCHANGED bvars

\* stop_profiler
StopProfilerTool ==
  \/ \E rejects \in BOOLEAN : Refused("stop_profiler", rejects)
  \/ /\ activePage # NoPage
     /\ StopProfiler
     /\ response' = IF last'.ret = <<>>
                    THEN Response(FALSE, "No renders captured.", Undef)
                    ELSE Response(FALSE, "json", last'.ret)
     /\ UNCHANGED bvars

\* ------------------------------------------- the serializer on its own

\* The values the serializer is given: heaps of two cells.  Cell c1 is an
\* array or an object; cell c2 is any value.  A container holds up to two
\* values a and b of the heap, or a followed by many b where b is a leaf.
Leaves ==
  { VNull, VUndefined, VNumber, VString("s"), VFunction("fn"), VFunction(""),
    VSymbol("sym"), VHtmlElement("DIV", "box"),
    VElement(TNull), VElement(TString("div")),
    VElement(TObject(Undef, "App", Undef, Undef)),
    VElement(TObject(Undef, Undef, Undef, Undef)),
    VElement(TSymbol("react.fragment")), VHostile }
Refs == {"c1", "c2"}
ShortItems == {<<>>} \cup {<<a>> : a \in Refs} \cup {<<a, b>> : a, b \in Refs}
LongItems(n) == { [i \in 1..n |-> IF i = 1 THEN a ELSE "c2"] : a \in Refs }
KeysOf(items, throwsAt) ==
  [i \in DOMAIN items |->
     VKey("k" \o ToString(i), IF i = throwsAt THEN "throws" ELSE "value", items[i])]
Containers(itemSeqs, keySeqs) ==
  {VArray(items) : items \in itemSeqs}
  \cup {VObject(KeysOf(items, throwsAt)) : items \in keySeqs, throwsAt \in {0, 2}}
ShortContainers == Containers(ShortItems, ShortItems)
LongContainers == Containers(LongItems(MaxItems), LongItems(MaxKeys))

InitSerialize ==
  /\ InitNoHook
  /\ \/ heap \in {[c1 |-> x, c2 |-> y] : x \in ShortContainers, y \in Leaves \cup ShortContainers}
     \/ heap \in {[c1 |-> x, c2 |-> y] : x \in LongContainers, y \in Leaves}
  /\ RDM_FIBERS = [defined |-> FALSE, arr |-> <<>>]
  /\ last = NoOp
  /\ issued = <<>>
  /\ ProfilerIdle /\ ToolsIdle

SafeSerialize ==
  \E val \in DOMAIN heap :
    /\ last' = [op |-> "serialize", val |-> val, ret |-> safeSerialize(val, 0)]
    /\ UNCHANGED <<hook, fiber, heap, RDM_FIBERS, issued, pvars>>

\* ------------------------------------------- the decoder on its own

\* The chains the decoder is given: two records h1 -> h2, each with a stored
\* value and with or without an update queue.
StoredValues ==
  { VNull, VNumber, VString("s"),
    VObject(<<VKey("destroy", "value", Undef), VKey("deps", "value", "deps")>>),
    VObject(<<VKey("destroy", "value", "fn"), VKey("deps", "value", Null)>>),
    VObject(<<VKey("current", "value", "n")>>),
    VObject(<<VKey("current", "value", Null), VKey("destroy", "value", "fn")>>),
    VObject(<<VKey("value", "value", "n")>>),
    VArray(<<"n", "deps">>), VArray(<<"n", "deps", "n">>), VArray(<<>>) }
QueueRefs == {Null, Undef, "stateQueue", "reducerQueue", "bareQueue"}
DecoderTags == {0, 1, 10, 11}
DecoderHeap(m1, q1, m2, q2) ==
  [h1 |-> HookRecord("m1", q1, "h2"), h2 |-> HookRecord("m2", q2, Null),
   m1 |-> m1, m2 |-> m2,
   stateQueue |-> UpdateQueue("fn", "basicStateReducer"),
   reducerQueue |-> UpdateQueue("fn", "reducer"),
   bareQueue |-> UpdateQueue(Null, Undef),
   basicStateReducer |-> VFunction("basicStateReducer"),
   reducer |-> VFunction("reducer"),
   fn |-> VFunction("fn"), n |-> VNumber, deps |-> VArray(<<"n">>)]

InitDecode ==
  /\ InitNoHook
  /\ heap \in {DecoderHeap(m1, q1, m2, q2) :
                 m1 \in StoredValues, q1 \in QueueRefs, m2 \in {VNumber}, q2 \in {Null}}
            \cup {DecoderHeap(m1, q1, m2, q2) :
                 m1 \in {VNumber}, q1 \in {"stateQueue"}, m2 \in StoredValues,
                 q2 \in QueueRefs}
  /\ RDM_FIBERS = [defined |-> FALSE, arr |-> <<>>]
  /\ last = NoOp
  /\ issued = <<>>
  /\ ProfilerIdle /\ ToolsIdle

\* extractHooks(fiber) of a fiber whose memoizedState is the chain.
ExtractHooks ==
  \E tag \in DecoderTags :
    /\ last' = [op |-> "extractHooks", tag |-> tag,
                ret |-> extractHooks([tag |-> tag, memoizedState |-> "h1"])]
    /\ UNCHANGED <<hook, fiber, heap, RDM_FIBERS, issued, pvars>>

\* ------------------------------------------------------ specifications

\* The engine's operations in any order, on the session forests.
\* An operation called directly, not through its tool handler.
Direct == UNCHANGED tvars
Next ==
  \/ GetComponentTree /\ Direct
  \/ SearchComponents /\ Direct
  \/ InspectComponent /\ Direct
  \/ ModifyState /\ Direct
Spec == InitSession /\ [][Next]_vars

\* One traversal of each forest of the wide family.
NextWalk ==
  \/ (last = NoOp /\ GetComponentTree /\ Direct)
  \/ (last = NoOp /\ SearchComponents /\ Direct)
SpecWalk == Init /\ [][NextWalk]_vars

\* The serializer on the values of a heap.
NextSerialize == SafeSerialize /\ Direct
SpecSerialize == InitSerialize /\ [][NextSerialize]_vars

\* The decoder on the chains of a heap.
NextDecode == ExtractHooks /\ Direct
SpecDecode == InitDecode /\ [][NextDecode]_vars

\* The pages the profiler runs on: a page without the hook, and forests whose
\* component fibers share names, with or without a callback of the target's
\* own, beside a host element or a ForwardRef, before or after their first
\* update or newly mounted in a tree that was updated, with or without
\* durations.
ProfilerPalettes ==
  { <<"Tab", "Tab", "App">>, <<"Pane", "div", "App">>, <<"Row", "Tab", "App">> }
InitProfiler ==
  /\ \/ InitNoHook
     \/ \E parent \in SessionParents, pal \in ProfilerPalettes :
          /\ fiber = MakeFibers(parent,
                       [n \in Fibers |-> IF parent[n] = 0 THEN "HostRoot"
                                         ELSE pal[(n % Len(pal)) + 1]])
          /\ hook = [available |-> TRUE, hasRenderers |-> TRUE,
                     renderers |-> <<Renderer(SetToSeq(RootsOf(parent)))>>]
  /\ heap = PageHeap
  /\ RDM_FIBERS = [defined |-> FALSE, arr |-> <<>>]
  /\ last = NoOp
  /\ issued = <<>>
  /\ onCommitFiberRoot \in (IF hook.available THEN {NoCallback, TargetCallback}
                            ELSE {NoCallback})
  /\ rdm_original_onCommitFiberRoot = Absent
  /\ RDM_PROFILER_DATA = NoData
  /\ alternate \in {{}, {n \in Fibers : fiber[n].return # 0},
                    {n \in Fibers : fiber[n].return # 0 /\ Fib(n).tag \notin {0, 1}}}
  /\ actualDuration \in {[n \in Fibers |-> 0], [n \in Fibers |-> n % (MaxDuration + 1)]}
  /\ session = NoSession
  /\ ToolsIdle

\* The profiler's two operations and the target's commits, in any order.
NextProfiler ==
  \/ StartProfiler /\ Direct
  \/ StopProfiler /\ Direct
  \/ Commit /\ Direct
SpecProfiler == InitProfiler /\ [][NextProfiler]_vars

\* The server as its caller meets it: not connected at first, then any tool
\* in any order on a page of any kind, the connection coming and going.
\* Its forest is a chain of a class component, a component whose hook holds
\* a fragment element, and a function component with state.
ToolPalettes == { <<"Inp", "App", "Pane">> }
ToolParents == { [n \in Fibers |-> n - 1] }
InitTools ==
  /\ \/ InitNoHook
     \/ InitNoRenderers
     \/ \E parent \in ToolParents, pal \in ToolPalettes :
          /\ fiber = MakeFibers(parent,
                       [n \in Fibers |-> IF parent[n] = 0 THEN "HostRoot"
                                         ELSE pal[(n % Len(pal)) + 1]])
          /\ hook = [available |-> TRUE, hasRenderers |-> TRUE,
                     renderers |-> <<Renderer(SetToSeq(RootsOf(parent)))>>]
  /\ heap = PageHeap
  /\ RDM_FIBERS = [defined |-> FALSE, arr |-> <<>>]
  /\ last = NoOp
  /\ issued = <<>>
  /\ ProfilerIdle
  /\ browser = NoBrowser
  /\ activePage = NoPage
  /\ pending = Idle
  /\ response = NoResponse

NextTools ==
  \/ ConnectTool
  \/ Disconnected
  \/ GetComponentTreeTool
  \/ SearchComponentsTool
  \/ InspectComponentTool
  \/ ModifyStateTool
  \/ StartProfilerTool
  \/ StopProfilerTool
SpecTools == InitTools /\ [][NextTools]_vars

\* The browser session module on its own: connect(), switchPage() and
\* disconnect() called in any order, at most one connect() and one
\* switchPage() in flight, every awaited call settling either way, and
\* Chrome going away at any moment.
InitBrowser ==
  /\ InitNoHook
  /\ heap = PageHeap
  /\ RDM_FIBERS = [defined |-> FALSE, arr |-> <<>>]
  /\ last = NoOp
  /\ issued = <<>>
  /\ ProfilerIdle
  /\ browser = NoBrowser
  /\ activePage = NoPage
  /\ pending = Idle
  /\ response = NoResponse
NextBrowser ==
  \/ ConnectCall
  \/ VersionSettled
  \/ ConnectSettled
  \/ PagesSettled
  \/ SwitchPageCall
  \/ SwitchPageSettled
  \/ Disconnect
  \/ Disconnected
SpecBrowser == InitBrowser /\ [][NextBrowser]_vars

\* ------------------------------------------- the forest, independently

\* The fibers the debug hook leads to: those under a root some renderer owns.
RECURSIVE RootOf(_)
RootOf(n) == IF fiber[n].return = 0 THEN n ELSE RootOf(fiber[n].return)
ForestRoots ==
  IF hook.available /\ hook.hasRenderers
  THEN {r \in Fibers : \E i \in DOMAIN hook.renderers :
          /\ hook.renderers[i].hasRoots
          /\ \E j \in DOMAIN hook.renderers[i].roots : hook.renderers[i].roots[j] = r}
  ELSE {}
ForestNodes == {n \in Fibers : RootOf(n) \in ForestRoots}

RECURSIVE ProperAncestors(_)
ProperAncestors(n) ==
  IF fiber[n].return = 0 THEN {}
  ELSE {fiber[n].return} \cup ProperAncestors(fiber[n].return)

\* A node's kind by the enumeration of the exported FIBER_TAGS.
KindOf(n) == typeOf("getComponentTree", ShapeTable(fiber[n].shape).tag)

AlwaysVisibleKinds ==
  {"FunctionComponent", "ClassComponent", "ForwardRef", "SimpleMemoComponent",
   "MemoComponent", "SuspenseComponent", "ProfilerComponent", "ContextProvider"}
NeverEmittedKinds == {"HostRoot", "HostText", "Fragment", "Mode"}

\* Included nodes, and a node's number of included proper ancestors.
IsIncluded(n, includeHtml) ==
  KindOf(n) \in AlwaysVisibleKinds \/ (includeHtml /\ KindOf(n) = "HostComponent")
IncludedAncestors(n, includeHtml) ==
  {a \in ProperAncestors(n) : IsIncluded(a, includeHtml)}

\* A node's place in document order: the position of its root among the
\* roots, then on the way down each node's position among its siblings.
RECURSIVE IndexIn(_, _), SiblingPos(_, _)
IndexIn(seq, x) == IF Head(seq) = x THEN 1 ELSE 1 + IndexIn(Tail(seq), x)
SiblingPos(first, n) == IF first = n THEN 1 ELSE 1 + SiblingPos(fiber[first].sibling, n)
RECURSIVE PathOf(_)
PathOf(n) ==
  IF fiber[n].return = 0 THEN <<IndexIn(rootFibers(hook.renderers), n)>>
  ELSE Append(PathOf(fiber[n].return), SiblingPos(fiber[fiber[n].return].child, n))
\* a comes before b in left-to-right depth-first pre-order.
RECURSIVE LexLess(_, _)
LexLess(p, q) ==
  IF p = <<>> THEN q # <<>>
  ELSE IF q = <<>> THEN FALSE
  ELSE IF Head(p) # Head(q) THEN Head(p) < Head(q)
  ELSE LexLess(Tail(p), Tail(q))
Before(a, b) == LexLess(PathOf(a), PathOf(b))
\* The nodes of S in pre-order.
RECURSIVE PreOrder(_)
PreOrder(S) ==
  IF S = {} THEN <<>>
  ELSE LET first == CHOOSE a \in S : \A b \in S \ {a} : Before(a, b)
       IN <<first>> \o PreOrder(S \ {first})

SeqToSet(seq) == {seq[i] : i \in DOMAIN seq}

\* ------------------------------------------------------------- claims

\* C1 as stated: getTree with includeHostElements = false emits exactly one
\* SummaryNode per live node of an always-visible kind, whatever the
\* nesting depth, and none of kind HostRoot, HostText, Fragment or Mode.
C1_AllVisibleEmitted ==
  (last.op = "getTree" /\ ~last.includeHtml) =>
    /\ Len(Flatten(last.ret)) =
         Cardinality({n \in ForestNodes : KindOf(n) \in AlwaysVisibleKinds})
    /\ \A i \in DOMAIN Flatten(last.ret) : Flatten(last.ret)[i].type \notin NeverEmittedKinds

\* C1 amended: getTree with includeHostElements = false emits exactly one
\* SummaryNode per live node of an always-visible kind that has at most
\* maxDepth always-visible proper ancestors, and none of kind HostRoot,
\* HostText, Fragment or Mode.
C1_VisibleWithinDepthEmitted ==
  (last.op = "getTree" /\ ~last.includeHtml) =>
    LET within == {n \in ForestNodes :
                     /\ KindOf(n) \in AlwaysVisibleKinds
                     /\ Cardinality(IncludedAncestors(n, FALSE)) <= last.maxDepth}
        flat == Flatten(last.ret)
    IN /\ Len(flat) = Cardinality(within)
       /\ Len(RDM_FIBERS.arr) = Len(flat)
       /\ SeqToSet(RDM_FIBERS.arr) = within
       /\ \A i \in DOMAIN flat :
            /\ flat[i].type \notin NeverEmittedKinds
            /\ flat[i].type = KindOf(RDM_FIBERS.arr[i])

\* C1's case: a forest with a transparent node and with always-visible nodes
\* both within and beyond maxDepth.
C1_Witness ==
  /\ last.op = "getTree" /\ ~last.includeHtml
  /\ Len(Flatten(last.ret)) >= 1
  /\ \E n \in ForestNodes : KindOf(n) = "Fragment"
  /\ \E n \in ForestNodes :
       /\ KindOf(n) \in AlwaysVisibleKinds
       /\ Cardinality(IncludedAncestors(n, FALSE)) > last.maxDepth

\* C2: in a getTree result every top-level SummaryNode has depth 0 and every
\* child SummaryNode has its parent SummaryNode's depth + 1.
RECURSIVE DepthsFrom(_, _)
DepthsFrom(nodes, d) ==
  \A i \in DOMAIN nodes : nodes[i].depth = d /\ DepthsFrom(nodes[i].children, d + 1)
C2_DepthInvariant == (last.op = "getTree") => DepthsFrom(last.ret, 0)

\* C2's case: a child SummaryNode whose live parent is a transparent node
\* and not the node of its parent SummaryNode.
C2_Witness ==
  /\ last.op = "getTree"
  /\ \E i \in DOMAIN Flatten(last.ret) :
       LET node == Flatten(last.ret)[i] IN
       \E j \in DOMAIN node.children :
         LET kid == RDM_FIBERS.arr[node.children[j].fiberIndex + 1] IN
         /\ fiber[kid].return # RDM_FIBERS.arr[node.fiberIndex + 1]
         /\ ~IsIncluded(fiber[kid].return, last.includeHtml)
         /\ node.children[j].depth = node.depth + 1


\* The registry as an array: a registry never created holds nothing.
Registry == IF RDM_FIBERS.defined THEN RDM_FIBERS.arr ELSE <<>>

\* C3: after a getTree that emits N SummaryNodes the registry holds exactly
\* the N emitted nodes, handles 0..N-1 in pre-order, registry[h] the node
\* that the SummaryNode with handle h describes; a handle >= N is not found.
C3_RegistryIsThisCall ==
  (last.op = "getTree") =>
    LET flat == Flatten(last.ret)
        emitted == PreOrder({n \in ForestNodes :
                      /\ IsIncluded(n, last.includeHtml)
                      /\ Cardinality(IncludedAncestors(n, last.includeHtml)) <= last.maxDepth})
    IN /\ Registry = emitted
       /\ Len(flat) = Len(emitted)
       /\ \A i \in DOMAIN flat :
            /\ flat[i].fiberIndex = i - 1
            /\ flat[i].name = getName("getComponentTree", Fib(emitted[i]))
            /\ flat[i].type = KindOf(emitted[i])
       /\ \A h \in Handles :
            (h >= Len(flat)) => (inspectComponent(h).k = "null" /\ handleMissing(RDM_FIBERS, h))

\* C3's case: a getTree that emits at least two nodes after an earlier call
\* that had registered more.
C3_Witness ==
  /\ last.op = "getTree"
  /\ Len(Flatten(last.ret)) >= 2
  /\ last.before.defined
  /\ Len(last.before.arr) > Len(Flatten(last.ret))

\* C5: after a search the registry contains only the nodes that search
\* registered, so a handle it did not assign is not found.
C5_SearchRebuildsRegistry ==
  (last.op = "search") =>
    /\ Registry = last.visited
    /\ \A h \in Handles :
         (h >= Len(last.visited)) => (inspectComponent(h).k = "null" /\ handleMissing(RDM_FIBERS, h))

\* C6: with no getTree or search in between, inspect(h) with a handle h the
\* latest getTree or search returned finds the node and reports the
\* displayName that was returned with h.
C6_InspectNameIsIssuedName ==
  (last.op = "inspect") =>
    \A i \in DOMAIN issued :
      (issued[i].fiberIndex = last.idx) =>
        (last.ret.k = "info" /\ last.ret.name = issued[i].name)

\* C7: search returns min(maxResults, matches) results, never more than
\* maxResults, and visits and registers the forest in pre-order up to the
\* node that fills the results and nothing after it.
Matches(query) ==
  {n \in ForestNodes :
     includes(toLowerCase(getName("searchComponents", Fib(n))), toLowerCase(query))}
C7_SearchStopsAtMaxResults ==
  (last.op = "search") =>
    LET K == last.maxResults
        M == Cardinality(Matches(last.query))
        vis == last.visited
        all == PreOrder(ForestNodes)
    IN /\ Len(last.ret) <= K
       /\ Len(last.ret) = (IF M < K THEN M ELSE K)
       /\ Len(vis) <= Len(all) /\ vis = SubSeq(all, 1, Len(vis))
       /\ (M > K) => Len(last.ret) = K
       /\ (K = 0) => vis = <<>>
       /\ (Len(last.ret) = K /\ K > 0) =>
            /\ vis[Len(vis)] \in Matches(last.query)
            /\ last.ret[K].fiberIndex = Len(vis) - 1
       /\ (Len(last.ret) < K) => vis = all
       /\ Len(Registry) >= Len(vis) /\ SubSeq(Registry, 1, Len(vis)) = vis
       /\ \A h \in DOMAIN Registry :
            (h > Len(vis)) => (h \in DOMAIN last.before.arr /\ Registry[h] = last.before.arr[h])

\* C7's case: more matches than maxResults >= 1, and the traversal stopped
\* at a node that has a child, before it had visited the whole forest.
C7_Witness ==
  /\ last.op = "search"
  /\ last.maxResults >= 1
  /\ Cardinality(Matches(last.query)) > last.maxResults
  /\ Len(last.ret) = last.maxResults
  /\ Len(last.visited) < Cardinality(ForestNodes)
  /\ fiber[last.visited[Len(last.visited)]].child # 0

\* C8: the Safe Serializer never raises, whatever value it is given: a
\* cyclic structure, a function, a symbol, a value whose property reads raise.
C8_SerializerNeverRaises ==
  (last.op = "serialize") => ~raised(last.ret)

\* A handle is present in the registry.
Present(reg, h) == reg.defined /\ h \in 0..(Len(reg.arr) - 1) /\ reg.arr[h + 1] # 0
StartsWith(str, prefix) == Len(str) >= Len(prefix) /\ SubSeq(str, 1, Len(prefix)) = prefix

\* C9: mutate with a handle that is not in the registry fails with an error
\* starting "Fiber not found" and calls nothing in the target.
C9_UnknownHandleFails ==
  (last.op = "mutate" /\ ~Present(last.before, last.idx)) =>
    /\ last.ret.success = FALSE
    /\ StartsWith(last.ret.error, "Fiber not found")
    /\ last.calls = <<>>

\* C9's case: a mutate with a handle just beyond a registry that holds nodes.
C9_Witness ==
  /\ last.op = "mutate"
  /\ RDM_FIBERS.defined /\ Len(RDM_FIBERS.arr) >= 1
  /\ last.idx >= Len(RDM_FIBERS.arr)
  /\ last.ret.success = FALSE

\* C10: mutate on a FunctionComponent, ForwardRef or SimpleMemo node with
\* index i >= 0: a chain of at most i records gives "hook index not found";
\* a record i without a dispatch function gives "not a state/reducer hook";
\* otherwise record i's dispatch is called exactly once with the value, and
\* the result is success, or the target's message if the dispatch raised.
FunctionFamilyKinds == {"FunctionComponent", "ForwardRef", "SimpleMemoComponent"}
\* The records of a chain in order, and the dispatch a record's queue holds.
RECURSIVE ChainFrom(_)
ChainFrom(ref) ==
  IF ref \in {Null, Undef} THEN <<>>
  ELSE <<ref>> \o ChainFrom(getKey(heap[ref], "next"))
DispatchOf(rec) ==
  LET q == getKey(heap[rec], "queue")
  IN IF q \in {Null, Undef} THEN VUndefined ELSE Deref(getKey(heap[q], "dispatch"))
C10_FunctionComponentMutate ==
  (/\ last.op = "mutate" /\ Present(last.before, last.idx) /\ last.hookIdx >= 0
   /\ KindOf(last.before.arr[last.idx + 1]) \in FunctionFamilyKinds) =>
    LET f == last.before.arr[last.idx + 1]
        chain == ChainFrom(ShapeTable(fiber[f].shape).memoizedState)
        i == last.hookIdx
    IN IF Len(chain) <= i
       THEN last.ret = Failure("Hook at index " \o ToString(i) \o " not found.")
            /\ last.calls = <<>>
       ELSE IF DispatchOf(chain[i + 1]).k # "function"
       THEN /\ last.ret.success = FALSE
            /\ StartsWith(last.ret.error, "Hook does not have a dispatch function")
            /\ last.calls = <<>>
       ELSE /\ Len(last.calls) = 1
            /\ last.calls[1].fiber = f /\ last.calls[1].fn = "dispatch"
            /\ last.calls[1].record = chain[i + 1] /\ last.calls[1].value = last.value
            /\ last.ret = (IF last.calls[1].raised THEN Failure(TargetMessage) ELSE Success)

\* C10's case: the dispatch of the second record of a chain is called and
\* raises.
C10_Witness ==
  /\ last.op = "mutate" /\ last.hookIdx = 1
  /\ Len(last.calls) = 1 /\ last.calls[1].fn = "dispatch" /\ last.calls[1].raised
  /\ last.ret = Failure(TargetMessage)

\* C11: mutate on a class-component node whose instance has a state setter
\* calls that setter exactly once with the new value, whatever the hook index,
\* and answers success; if the setter raises, the exception is caught and the
\* answer is a failure carrying the target's message.
C11_ClassComponentMutate ==
  (/\ last.op = "mutate" /\ Present(last.before, last.idx)
   /\ Fib(last.before.arr[last.idx + 1]).tag = 1
   /\ Fib(last.before.arr[last.idx + 1]).stateNode.k = "instance"
   /\ Fib(last.before.arr[last.idx + 1]).stateNode.setState) =>
    /\ Len(last.calls) = 1
    /\ last.calls[1].fiber = last.before.arr[last.idx + 1]
    /\ last.calls[1].fn = "setState" /\ last.calls[1].value = last.value
    /\ last.ret = (IF last.calls[1].raised THEN Failure(TargetMessage) ELSE Success)

\* C11's case: the setter of a class instance is called with a hook index
\* other than 0 and raises.
C11_Witness ==
  /\ last.op = "mutate" /\ last.hookIdx = MaxHookArg
  /\ Len(last.calls) = 1 /\ last.calls[1].fn = "setState" /\ last.calls[1].raised
  /\ KindOf(last.calls[1].fiber) = "ClassComponent"
  /\ last.ret = Failure(TargetMessage)

\* C12: mutate on a registered node that is neither a class component with a
\* state setter nor a FunctionComponent, ForwardRef or SimpleMemo node fails
\* with "Component is not a class or function component." and calls nothing
\* in the target.
C12_OtherKindNotStateful ==
  (/\ last.op = "mutate" /\ Present(last.before, last.idx)
   /\ KindOf(last.before.arr[last.idx + 1]) \notin FunctionFamilyKinds
   /\ ~(/\ KindOf(last.before.arr[last.idx + 1]) = "ClassComponent"
        /\ Fib(last.before.arr[last.idx + 1]).stateNode.k = "instance"
        /\ Fib(last.before.arr[last.idx + 1]).stateNode.setState)) =>
    /\ last.ret = Failure("Component is not a class or function component.")
    /\ last.calls = <<>>

\* C12's case: mutate on a registered root container.
C12_Witness ==
  /\ last.op = "mutate" /\ Present(last.before, last.idx)
  /\ KindOf(last.before.arr[last.idx + 1]) = "HostRoot"
  /\ last.ret.success = FALSE /\ last.calls = <<>>

\* The callback the target installed itself: what is left of a callback when
\* every wrapper is taken away.
RECURSIVE Original(_)
Original(cb) == IF cb.k = "wrapper" THEN Original(cb.original) ELSE cb

\* The name the profiler files a fiber under.
NameOf(f) == profilerName(Fib(f))

\* C14: when stop() ends a session in which the target performed k >= 1
\* commits since start(), and in each of them exactly one node re-rendered,
\* always a node named X, the list stop() answers has an entry for X with
\* renderCount = k.
C14_RenderCountIsCommits ==
  (/\ last.op = "stop" /\ last.session.starts >= 1 /\ Len(last.session.commits) >= 1
   /\ \A i \in DOMAIN last.session.commits : Cardinality(last.session.commits[i]) = 1) =>
    \A X \in {NameOf(f) : f \in UNION {last.session.commits[i] :
                                          i \in DOMAIN last.session.commits}} :
      (\A i \in DOMAIN last.session.commits :
         \A f \in last.session.commits[i] : NameOf(f) = X) =>
        \E j \in DOMAIN last.ret :
          /\ last.ret[j].componentName = X
          /\ last.ret[j].renderCount = Len(last.session.commits)

\* C15: a commit the target performs between a start() and the next stop()
\* reaches the target's own commit callback exactly once, with the receiver
\* and the arguments of the commit, after the tally was updated, and the
\* commit answers what that callback answered; where the target had no
\* callback the wrapper tallies and answers undefined.  Nothing raises.
C15_CommitReachesOriginal ==
  (last.op = "commit" /\ session.starts >= 1 /\ last.before.k = "wrapper") =>
    /\ ~last.raised
    /\ last.events # <<>> /\ last.events[1] = "tally"
    /\ IF Original(last.before).k = "function"
       THEN /\ last.calls = <<last.args>>
            /\ last.ret = TargetReturn
            /\ \A i \in DOMAIN last.events :
                 (last.events[i] = "original") <=> (i = Len(last.events))
       ELSE /\ last.calls = <<>>
            /\ last.ret = Undef
            /\ \A i \in DOMAIN last.events : last.events[i] = "tally"

\* C15's case: a commit in a session that was started twice, on a hook that
\* had a callback of the target's own, in which a component re-rendered.
C15_Witness ==
  /\ last.op = "commit" /\ session.starts = 2 /\ last.rendered # {}
  /\ WrapDepth(last.before) = 2 /\ Original(last.before) = TargetCallback
  /\ last.calls = <<last.args>> /\ last.args.rest = "normal"

\* C16: after a stop() the hook's commit callback is the callback, or the
\* absence of one, that the target had installed: no wrapper is left.
C16_StopRestoresOriginal ==
  (last.op = "stop") => (onCommitFiberRoot = Original(last.before))

\* C17: stop() with no session active (no start() since the last stop(), or
\* none at all) answers the empty list and leaves the hook's commit callback
\* as it was.
C17_StopWithoutSession ==
  (last.op = "stop" /\ last.session.starts = 0) =>
    (last.ret = <<>> /\ onCommitFiberRoot = last.before)

\* C17's case: a second stop() after a session in which components were
\* tallied, on a hook that has a callback.
C17_Witness ==
  /\ last.op = "stop" /\ last.session.starts = 0 /\ last.before.k # "undefined"
  /\ alternate # {} /\ rdm_original_onCommitFiberRoot = Absent
  /\ last.ret = <<>>

\* C18: the list stop() answers has exactly one entry for each name tallied
\* in the session, and its renderCounts never increase along the list.
C18_ResultsSortedDescending ==
  (last.op = "stop") =>
    /\ {last.ret[i].componentName : i \in DOMAIN last.ret}
         = {last.data.entries[i].name : i \in DOMAIN last.data.entries}
    /\ \A i, j \in DOMAIN last.ret :
         (i # j) => (last.ret[i].componentName # last.ret[j].componentName)
    /\ \A i, j \in DOMAIN last.ret :
         (i < j) => (last.ret[i].renderCount >= last.ret[j].renderCount)

\* C18's case: the name tallied first has the smaller count, so the list is
\* not in the order of the tally.
C18_Witness ==
  /\ last.op = "stop" /\ Len(last.ret) >= 2
  /\ last.data.entries[1].renderCount < last.data.entries[2].renderCount
  /\ last.ret[1].componentName = last.data.entries[2].name

\* C13: no tool lets an exception cross to its caller: whatever the state
\* (not connected, page gone, no hook, stale handle, the target's code
\* raising), the handler answers a response, and a call that could not run or
\* that raised in the page is answered with an error response.
C13_NoExceptionCrosses ==
  /\ response.k \in {"none", "response"}
  /\ (response.k = "response" /\ last.op = "none") => response.isError
  /\ (response.k = "response" /\ last.op = "inspect" /\ raised(last.ret)) => response.isError

\* C13's case: the serializer raised inside the page during inspect_component
\* and the handler answered an error response.
C13_Witness ==
  /\ last.op = "inspect" /\ raised(last.ret)
  /\ response.k = "response" /\ response.isError
  /\ response.value = SerializeError

\* C19: on a page without the debug hook detect answers hookAvailable =
\* false, reactDetected = false and rootCount = 0, getTree and search answer
\* the empty list, and startProfiler and stopProfiler complete; getTree also
\* answers the empty list when the hook has no renderers.
C19_AbsenceIsData ==
  /\ (~hook.available /\ last.op = "detect") =>
       (last.ret = [reactDetected |-> FALSE, reactVersion |-> Null, rootCount |-> 0,
                    hookAvailable |-> FALSE]
        /\ response.k = "response" /\ ~response.isError)
  /\ (~hook.available /\ last.op \in {"getTree", "search"}) =>
       (last.ret = <<>> /\ response.k = "response" /\ ~response.isError)
  /\ (~hook.available /\ last.op \in {"start", "stop"}) =>
       (response.k = "response" /\ ~response.isError)
  /\ (hook.available /\ ~hook.hasRenderers /\ last.op = "getTree") =>
       (last.ret = <<>> /\ response.k = "response" /\ ~response.isError)

\* C19's case: detect on a page without the hook.
C19_Witness ==
  /\ ~hook.available /\ last.op = "detect"
  /\ last.ret.hookAvailable = FALSE /\ last.ret.rootCount = 0
  /\ response.text = "connected"

\* The rules of the decoder, read off a record of the heap.
HasQueue(rec) == getKey(heap[rec], "queue") \notin {Null, Undef}
Stored(rec) == heap[getKey(heap[rec], "memoizedState")]
HasField(v, name) == v.k = "object" /\ name \in {v.keys[i].name : i \in DOMAIN v.keys}
KindByRules(rec) ==
  IF HasQueue(rec) THEN "StateOrReducer"
  ELSE IF HasField(Stored(rec), "destroy") THEN "Effect"
  ELSE IF HasField(Stored(rec), "current") THEN "Ref"
  ELSE IF Stored(rec).k = "array" /\ Len(Stored(rec).items) = 2 THEN "MemoOrCallback"
  ELSE "Unknown"
KindOfType(type) ==
  CASE type \in {"useState", "useReducer"} -> "StateOrReducer"
    [] type = "useEffect" -> "Effect"
    [] type = "useRef" -> "Ref"
    [] type = "useMemo/useCallback" -> "MemoOrCallback"
    [] OTHER -> "Unknown"

\* C20: the decoder gives each record of a chain the kind of the first rule
\* it matches, in the order update queue, destroy field, current field,
\* two-element array, and Unknown when it matches none.
C20_FirstMatchWins ==
  (last.op = "extractHooks" /\ last.tag \in {0, 10, 11}) =>
    /\ Len(last.ret) = 2
    /\ KindOfType(last.ret[1].type) = KindByRules("h1")
    /\ KindOfType(last.ret[2].type) = KindByRules("h2")

\* C20's case: the second record of a chain has an update queue and a stored
\* value with both a current and a destroy field.
C20_Witness ==
  /\ last.op = "extractHooks" /\ Len(last.ret) = 2
  /\ HasQueue("h2") /\ HasField(Stored("h2"), "destroy")
  /\ HasField(Stored("h2"), "current")
  /\ last.ret[2].type \in {"useState", "useReducer"}


\* --------------------------------------------------------------- C21

\* No call of the module is in flight and the call that ended last is ...
Settled == pending = Idle
AfterFailedConnect == Settled /\ last.op = "connect" /\ last.threw
AfterConnect == Settled /\ last.op = "connect" /\ ~last.threw
AfterDisconnect == Settled /\ last.op = "disconnect"
AtStart == Settled /\ last = NoOp

\* C21: whenever no connection is established (initially, after a failed
\* connect(), after disconnect()) isConnected() is false and getPage()
\* throws an error that starts with "Not connected to Chrome"; after a
\* successful connect() getPage() returns the page connect() selected and
\* isConnected() is true.
C21_SessionContract ==
  /\ (AtStart \/ AfterFailedConnect \/ AfterDisconnect)
       => /\ ~isConnected
          /\ getPage.threw
          /\ StartsWith(getPage.error, "Not connected to Chrome")
  /\ AfterConnect
       => /\ getPage = Returned("getPage", last.ret)
          /\ isConnected

\* --------------------------------------------------------------- C22

\* C22: in every state start(), stop() and commits lead to, a call of the
\* hook's commit callback by the target does not raise from the profiler's
\* code and reaches the target's own callback, if it has one, exactly once
\* with the arguments of the commit; the target that has no callback of its
\* own is answered undefined.
C22_CommitNeverRaises ==
  (last.op = "commit") =>
    /\ ~last.raised
    /\ IF Original(last.before).k = "function"
       THEN last.calls = <<last.args>> /\ last.ret = TargetReturn
       ELSE last.calls = <<>> /\ last.ret = Undef

\* --------------------------------------------------------- C23, C24

\* data[name].renderCount, 0 where data has no entry of that name.
CountOf(data, name) ==
  IF entryOf(data.entries, name) = 0 THEN 0
  ELSE data.entries[entryOf(data.entries, name)].renderCount

\* The fibers of the committed tree a commit must tally under a name: the
\* function and class components that have an alternate.
Qualifying(root, name) ==
  {f \in Below(root) : Fib(f).tag \in {0, 1} /\ f \in alternate /\ NameOf(f) = name}

\* The names fibers resolve to.
ProfilerNames == {NameOf(f) : f \in Fibers}

\* What a commit added to the tally of a name.
Added(name) == CountOf(RDM_PROFILER_DATA, name) - CountOf(last.data, name)

\* C23: start() called twice in a row counts as start() called once: a
\* commit of the session tallies each qualifying node once, never twice.
C23_StartTwiceCountsOnce ==
  (last.op = "commit" /\ session.starts >= 2 /\ ~last.raised) =>
    \A name \in ProfilerNames :
      Added(name) = Cardinality(Qualifying(last.args.root, name))

\* C24: a commit during a session, with the one wrapper of that session
\* installed, adds to renderCount[name] exactly the number of function and
\* class component fibers of the committed tree that have an alternate and
\* resolve to that name; fibers without an alternate and fibers of every
\* other kind add nothing.
C24_TallyIsQualifyingNodes ==
  (last.op = "commit" /\ session.starts = 1 /\ WrapDepth(last.before) = 1) =>
    /\ ~last.raised
    /\ \A name \in ProfilerNames :
         Added(name) = Cardinality(Qualifying(last.args.root, name))

\* C24's case: a commit of a tree that holds a ForwardRef fiber with an
\* alternate, which adds nothing, a component that was mounted and never
\* rendered again, which adds nothing, and one that rendered again, which
\* adds one.
C24_Witness ==
  /\ last.op = "commit" /\ session.starts = 1 /\ WrapDepth(last.before) = 1
  /\ \E f \in Below(last.args.root) : Fib(f).tag = 11 /\ f \in alternate
  /\ \E f \in Below(last.args.root) : Fib(f).tag \in {0, 1} /\ f \notin alternate
  /\ \E name \in ProfilerNames : Added(name) = 1
  /\ \A name \in ProfilerNames : Added(name) <= 1

\* --------------------------------------------------------------- C25

\* The live node a SummaryNode describes.
NodeOf(s) == RDM_FIBERS.arr[s.fiberIndex + 1]

\* A node's nearest included proper ancestor, 0 when it has none.
RECURSIVE NearestIncluded(_, _)
NearestIncluded(n, includeHtml) ==
  IF fiber[n].return = 0 THEN 0
  ELSE IF IsIncluded(fiber[n].return, includeHtml) THEN fiber[n].return
  ELSE NearestIncluded(fiber[n].return, includeHtml)

\* A list of SummaryNodes, and every children list below it, holds nodes
\* whose nearest included proper ancestor is the list's owner, in the
\* left-to-right depth-first order of the live tree.
RECURSIVE Spliced(_, _, _)
Spliced(nodes, owner, includeHtml) ==
  /\ \A i, j \in DOMAIN nodes : i < j => Before(NodeOf(nodes[i]), NodeOf(nodes[j]))
  /\ \A i \in DOMAIN nodes :
       /\ NearestIncluded(NodeOf(nodes[i]), includeHtml) = owner
       /\ Spliced(nodes[i].children, NodeOf(nodes[i]), includeHtml)

\* The nodes a getTree emitted.
Emitted == {NodeOf(Flatten(last.ret)[i]) : i \in DOMAIN Flatten(last.ret)}

\* C25 as stated: a node is emitted iff its kind is always visible or it is
\* a host element and host elements were asked for; every emitted node is in
\* the children list of its nearest included proper ancestor's SummaryNode,
\* or at the top level, and every list is in the live tree's order.
C25_EmittedIffIncluded ==
  (last.op = "getTree" /\ RDM_FIBERS.defined) =>
    /\ Emitted = {n \in ForestNodes : IsIncluded(n, last.includeHtml)}
    /\ Spliced(last.ret, 0, last.includeHtml)

\* C25 amended: the same of the nodes within the depth limit, those with at
\* most maxDepth included proper ancestors; beyond it nothing is emitted.
C25_EmittedIffIncludedWithinDepth ==
  (last.op = "getTree" /\ RDM_FIBERS.defined) =>
    /\ Emitted = {n \in ForestNodes :
                    /\ IsIncluded(n, last.includeHtml)
                    /\ Cardinality(IncludedAncestors(n, last.includeHtml)) <= last.maxDepth}
    /\ Len(Flatten(last.ret)) = Cardinality(Emitted)
    /\ Spliced(last.ret, 0, last.includeHtml)

\* C25's case: a top-level list of two SummaryNodes, one of them a node
\* whose live parent is a Fragment beside the other, and a host element that
\* is emitted because host elements were asked for.
C25_Witness ==
  /\ last.op = "getTree" /\ RDM_FIBERS.defined
  /\ Len(last.ret) = 2
  /\ \E i \in 1..2 : KindOf(fiber[NodeOf(last.ret[i])].return) = "Fragment"
  /\ fiber[NodeOf(last.ret[1])].return # fiber[NodeOf(last.ret[2])].return
  /\ last.includeHtml
  /\ \E n \in Emitted : KindOf(n) = "HostComponent"

\* --------------------------------------------------------------- C26

SearchName(n) == getName("searchComponents", Fib(n))

\* A string contains another whatever the case of their letters: the
\* letters of the names and queries, upper case with lower case.
CasePairs ==
  {<<"A", "a">>, <<"B", "b">>, <<"C", "c">>, <<"D", "d">>, <<"F", "f">>, <<"H", "h">>,
   <<"I", "i">>, <<"M", "m">>, <<"P", "p">>, <<"R", "r">>, <<"S", "s">>, <<"T", "t">>,
   <<"U", "u">>, <<"V", "v">>}
SameLetter(a, b) == a = b \/ <<a, b>> \in CasePairs \/ <<b, a>> \in CasePairs
ContainsAnyCase(str, q) ==
  \E i \in 1..(Len(str) - Len(q) + 1) :
    \A j \in 1..Len(q) : SameLetter(SubSeq(str, i + j - 1, i + j - 1), SubSeq(q, j, j))

\* The matches of a query in the forest, in pre-order.
MatchSeq(query) ==
  SelectSeq(PreOrder(ForestNodes), LAMBDA n : ContainsAnyCase(SearchName(n), query))

\* C27: search(query, K) filters no kind: it visits the roots' forest in
\* depth-first pre-order, registers each visited node under its visit
\* position, and returns in visit order the first min(K, M) visited nodes
\* whose resolved name contains the query whatever the case; a result's
\* depth is its node's number of proper ancestors and its parentName the
\* resolved name of the node's live parent, null for a root.
C27_SearchResults ==
  (last.op = "search") =>
    LET all == PreOrder(ForestNodes)
        hits == MatchSeq(last.query)
        K == last.maxResults
    IN /\ Len(last.ret) = (IF Len(hits) < K THEN Len(hits) ELSE K)
       /\ Len(last.visited) <= Len(all)
       /\ \A h \in DOMAIN last.visited :
            last.visited[h] = all[h] /\ Registry[h] = all[h]
       /\ \A i \in DOMAIN last.ret :
            LET n == hits[i] IN
            /\ last.ret[i].fiberIndex + 1 \in DOMAIN last.visited
            /\ last.visited[last.ret[i].fiberIndex + 1] = n
            /\ last.ret[i].name = SearchName(n)
            /\ last.ret[i].depth = Cardinality(ProperAncestors(n))
            /\ last.ret[i].parentName =
                 (IF fiber[n].return = 0 THEN Null ELSE SearchName(fiber[n].return))
            /\ last.ret[i].key = Coalesce(Fib(n).key, Null)

\* C27's case: a query in another case than the names it matches, with
\* more matches than one, and a search for everything that returns a root
\* container and its child.
C27_Witness ==
  /\ last.op = "search" /\ Len(last.ret) = 2
  /\ \/ /\ last.query = "aP"
        /\ last.ret[2].name = "App" /\ last.ret[2].parentName # Null
        /\ last.ret[2].depth >= 2
     \/ /\ last.query = ""
        /\ Fib(last.visited[last.ret[1].fiberIndex + 1]).tag = 3
        /\ last.ret[1].parentName = Null /\ last.ret[2].depth = 1

\* --------------------------------------------------------------- C28

\* The inspect_component handler ended after its search by name found
\* nothing to inspect.
InspectByNameFoundNothing ==
  response.k = "response"
  /\ response.text \in {"No component matching", "Only n instances found"}

\* C28: inspect and mutate only read the registry: after inspect(h) or
\* mutate(h, i, v), called directly or through inspect_component, by handle
\* or by component name, or through modify_state, the registry holds the
\* handle-to-node mapping it held before the call.
C28_RegistryOnlyRead ==
  (last.op \in {"inspect", "mutate"} \/ (last.op = "search" /\ InspectByNameFoundNothing))
    => Registry = (IF last.before.defined THEN last.before.arr ELSE <<>>)

\* --------------------------------------------------------------- C29

\* The codes the exported FIBER_TAGS enumeration recognizes.
RecognizedCodes == {0, 1, 2, 3, 5, 6, 7, 8, 10, 11, 12, 13, 14, 15, 16, 22}

\* C29: the kind getTree, search and inspect report for a node is the
\* enumeration name of the node's code when the code is a recognized one,
\* and the fallback form only for the other codes; so the three report the
\* same kind for the same node.
C29_KindIsEnumerationName ==
  /\ (last.op = "getTree") =>
       \A i \in DOMAIN Flatten(last.ret) :
         Flatten(last.ret)[i].type = KindOf(NodeOf(Flatten(last.ret)[i]))
  /\ (last.op = "search") =>
       \A i \in DOMAIN last.ret :
         /\ last.ret[i].type = KindOf(last.visited[last.ret[i].fiberIndex + 1])
         /\ Fib(last.visited[last.ret[i].fiberIndex + 1]).tag \in RecognizedCodes
              => ~StartsWith(last.ret[i].type, "Tag(")
  /\ (last.op = "inspect" /\ last.ret.k = "info") =>
       /\ last.ret.type = KindOf(last.before.arr[last.idx + 1])
       /\ Fib(last.before.arr[last.idx + 1]).tag \in RecognizedCodes
            => ~StartsWith(last.ret.type, "Tag(")

\* --------------------------------------------------------------- C30

\* The hook has at least one renderer.
HasRenderer == hook.available /\ hook.hasRenderers /\ Len(hook.renderers) > 0

\* C30: detect reports the version string of the first renderer when it
\* exposes one, frameworkDetected exactly when the hook has a renderer, and
\* as rootCount the number of root containers of all renderers together.
C30_DetectReportsVersion ==
  (last.op = "detect") =>
    /\ (HasRenderer /\ hook.renderers[1].version \notin {Undef, Null})
         => last.ret.reactVersion = hook.renderers[1].version
    /\ last.ret.reactDetected <=> HasRenderer
    /\ last.ret.rootCount = Cardinality(ForestRoots)

\* C31: a successful mutate(h, i, v) on a FunctionComponent, ForwardRef or
\* SimpleMemo node calls the dispatch of the chain record at position i and
\* of no other record; for an i that is no position of the chain (i < 0 or
\* i >= the chain's length) mutate answers a failure and calls nothing.
C31_MutateAtExactPosition ==
  (/\ last.op = "mutate" /\ Present(last.before, last.idx)
   /\ KindOf(last.before.arr[last.idx + 1]) \in FunctionFamilyKinds) =>
    LET f == last.before.arr[last.idx + 1]
        chain == ChainFrom(ShapeTable(fiber[f].shape).memoizedState)
        i == last.hookIdx
    IN /\ last.ret.success =>
            /\ i \in 0..(Len(chain) - 1)
            /\ Len(last.calls) = 1
            /\ last.calls[1].fn = "dispatch"
            /\ last.calls[1].record = chain[i + 1]
       /\ i \notin 0..(Len(chain) - 1) =>
            /\ ~last.ret.success
            /\ last.calls = <<>>

\* C33: the serializer's recursion is limited to depth 3: with the value it
\* is given at depth 0, a value reached at depth 3 or less is serialized by
\* the ordinary rules (a sequence stays a sequence, a keyed structure stays a
\* keyed structure, nothing becomes the depth marker) and every value reached
\* at depth 4, whatever it is, is the depth marker; so no output nests more
\* than 4 levels.
MaxDepthMarker == VString("[max depth]")
UnserializableMarker == VString("[unserializable]")
\* out is what the rules give for the value at val reached at depth d; a
\* value under a key of a keyed structure may also be the key's marker.
RECURSIVE DepthRule(_, _, _, _)
DepthRule(val, out, d, underKey) ==
  IF d >= 4 THEN out = MaxDepthMarker
  ELSE \/ underKey /\ out = UnserializableMarker
       \/ /\ out # MaxDepthMarker
          /\ heap[val].k \in {"null", "undefined", "number", "string"} => out = heap[val]
          /\ heap[val].k \in {"function", "symbol", "htmlElement", "element"} =>
               out.k = "string"
          /\ heap[val].k = "array" =>
               /\ out.k = "array"
               /\ \A i \in DOMAIN out.items :
                    DepthRule(heap[val].items[i], out.items[i], d + 1, FALSE)
          /\ heap[val].k = "object" =>
               /\ out.k = "plain"
               /\ \A i \in DOMAIN out.entries :
                    heap[val].keys[i].read = "value" =>
                      DepthRule(heap[val].keys[i].ref, out.entries[i].value, d + 1, TRUE)
\* The levels of structure of an output: 0 for a leaf.
RECURSIVE Nesting(_)
MaxOf(S) == IF S = {} THEN 0 ELSE CHOOSE x \in S : \A y \in S : y <= x
Nesting(out) ==
  IF out.k = "array" THEN 1 + MaxOf({Nesting(out.items[i]) : i \in DOMAIN out.items})
  ELSE IF out.k = "plain"
  THEN 1 + MaxOf({Nesting(out.entries[i].value) : i \in DOMAIN out.entries})
  ELSE 0
C33_DepthLimitedToThree ==
  (last.op = "serialize" /\ ~raised(last.ret)) =>
    /\ DepthRule(last.val, last.ret, 0, FALSE)
    /\ Nesting(last.ret) <= 4

\* C33's case: an output with four levels of structure, whose innermost
\* level holds the depth marker in place of a sequence or keyed structure.
C33_Witness ==
  /\ last.op = "serialize" /\ ~raised(last.ret)
  /\ Nesting(last.ret) = 4
  /\ \E a, b, c, d \in 1..2 :
       /\ last.ret.k = "array" /\ a \in DOMAIN last.ret.items
       /\ last.ret.items[a].k = "plain" /\ b \in DOMAIN last.ret.items[a].entries
       /\ last.ret.items[a].entries[b].value.k = "array"
       /\ c \in DOMAIN last.ret.items[a].entries[b].value.items
       /\ last.ret.items[a].entries[b].value.items[c].k = "plain"
       /\ d \in DOMAIN last.ret.items[a].entries[b].value.items[c].entries
       /\ last.ret.items[a].entries[b].value.items[c].entries[d].value = MaxDepthMarker

\* C34: the serializer bounds breadth: a sequence of n elements becomes a
\* sequence of exactly min(n, 10) elements, the serializations of its first
\* min(n, 10) elements in order; a keyed structure of n keys becomes a
\* structure with exactly its first min(n, 20) keys in order, each with the
\* serialization of its value (the key's marker when that raises).
Smaller(a, b) == IF a < b THEN a ELSE b
SerializedKey(key) ==
  IF key.read = "throws" \/ raised(safeSerialize(key.ref, 1))
  THEN UnserializableMarker
  ELSE safeSerialize(key.ref, 1)
C34_BreadthBounded ==
  (last.op = "serialize" /\ ~raised(last.ret)) =>
    /\ heap[last.val].k = "array" =>
         /\ last.ret.k = "array"
         /\ Len(last.ret.items) = Smaller(Len(heap[last.val].items), 10)
         /\ \A i \in DOMAIN last.ret.items :
              last.ret.items[i] = safeSerialize(heap[last.val].items[i], 1)
    /\ heap[last.val].k = "object" =>
         /\ last.ret.k = "plain"
         /\ Len(last.ret.entries) = Smaller(Len(heap[last.val].keys), 20)
         /\ \A i \in DOMAIN last.ret.entries :
              /\ last.ret.entries[i].key = heap[last.val].keys[i].name
              /\ last.ret.entries[i].value = SerializedKey(heap[last.val].keys[i])

\* C34's case: a sequence of more than 10 elements or a keyed structure of
\* more than 20 keys is serialized and its tail is dropped.
C34_WitnessSequence ==
  /\ last.op = "serialize" /\ heap[last.val].k = "array"
  /\ Len(heap[last.val].items) > 10 /\ Len(last.ret.items) = 10
C34_WitnessKeyed ==
  /\ last.op = "serialize" /\ heap[last.val].k = "object"
  /\ Len(heap[last.val].keys) > 20 /\ Len(last.ret.entries) = 20
  /\ last.ret.entries[20].key = "k20"
C34_Witness == C34_WitnessSequence \/ C34_WitnessKeyed

\* C35: when a keyed structure is serialized and reading or serializing the
\* value of one key raises, the result still holds every retained key, maps
\* the failing key to "[unserializable]" and every other key to its normal
\* serialization; the structure's serialization does not raise.
KeyFails(key) == key.read = "throws" \/ raised(safeSerialize(key.ref, 1))
C35_FailingKeyIsLocal ==
  (last.op = "serialize" /\ heap[last.val].k = "object") =>
    /\ ~raised(last.ret)
    /\ last.ret.k = "plain"
    /\ Len(last.ret.entries) = Smaller(Len(heap[last.val].keys), 20)
    /\ \A i \in DOMAIN last.ret.entries :
         IF KeyFails(heap[last.val].keys[i])
         THEN last.ret.entries[i].value = UnserializableMarker
         ELSE /\ last.ret.entries[i].value # UnserializableMarker
              /\ last.ret.entries[i].value = safeSerialize(heap[last.val].keys[i].ref, 1)

\* C35's case: of two keys one fails (its getter raises, or its value is a
\* sequence or element whose serialization raises) and the other is
\* serialized normally.
C35_Witness ==
  /\ last.op = "serialize" /\ heap[last.val].k = "object"
  /\ Len(heap[last.val].keys) = 2
  /\ heap[last.val].keys[1].read = "value" /\ KeyFails(heap[last.val].keys[1])
  /\ heap[last.val].keys[2].read = "throws"
  /\ last.ret.k = "plain"
  /\ last.ret.entries[1].value = UnserializableMarker
  /\ last.ret.entries[2].value = UnserializableMarker

\* The same for inspect: a node whose props hold a key whose value cannot
\* be serialized is inspected, and the response holds the marker under that
\* key and the other keys' serializations.
C35_InspectNotAborted ==
  (/\ last.op = "inspect" /\ Present(last.before, last.idx)
   /\ fiber[last.before.arr[last.idx + 1]].shape = "Tab") =>
     /\ ~raised(last.ret)
     /\ last.ret.props.entries[1] = [key |-> "children", value |-> UnserializableMarker]
     /\ last.ret.props.entries[2].value = VString("[Function: anonymous]")

C32_PageOnlyWithBrowser ==
  /\ activePage # NoPage => browser # NoBrowser
  /\ ~getPage.threw => isConnected

\* --------------------------------------------------------------- C38

\* data[name].totalDuration, 0 when data has no entry of that name.
TotalOf(data, name) ==
  LET at == {i \in DOMAIN data.entries : data.entries[i].name = name}
  IN IF at = {} THEN 0 ELSE data.entries[CHOOSE i \in at : TRUE].totalDuration
RECURSIVE SumOfDurations(_)
SumOfDurations(S) ==
  IF S = {} THEN 0
  ELSE LET f == CHOOSE x \in S : TRUE
       IN actualDuration[f] + SumOfDurations(S \ {f})
\* A commit with the session's one wrapper installed adds to each name the
\* durations of its tallied visits, and counts a visit whose node has no
\* duration.
TalliesDurations ==
  (last.op = "commit" /\ session.starts = 1 /\ WrapDepth(last.before) = 1) =>
    \A name \in ProfilerNames :
      /\ TotalOf(RDM_PROFILER_DATA, name) - TotalOf(last.data, name)
           = SumOfDurations(Qualifying(last.args.root, name))
      /\ Added(name) = Cardinality(Qualifying(last.args.root, name))
\* The entry of the data that a result of stop() reports.
DataEntry(result) ==
  last.data.entries[CHOOSE i \in DOMAIN last.data.entries :
                      last.data.entries[i].name = result.componentName]
\* x is q rounded to the nearest whole, a half upwards, where q = n / d.
IsRounded(x, n, d) == 2 * d * x <= 2 * n + d /\ 2 * n + d < 2 * d * (x + 1)

\* C38: for every entry stop() returns, avgDuration is the entry's
\* totalDuration divided by its renderCount, and totalDuration is the sum of
\* the durations of the tallied visits; a node without a duration adds zero
\* and is still counted.  (Results are in hundredths, durations in halves of
\* a hundredth.)
C38_AvgIsTotalOverCount ==
  /\ TalliesDurations
  /\ (last.op = "stop") =>
       \A i \in DOMAIN last.ret :
         /\ last.ret[i].renderCount = DataEntry(last.ret[i]).renderCount
         /\ 2 * last.ret[i].totalDuration = DataEntry(last.ret[i]).totalDuration
         /\ last.ret[i].avgDuration * last.ret[i].renderCount = last.ret[i].totalDuration

\* C38 as the code has it: the sum of the durations of the tallied visits is
\* kept unrounded; stop() reports totalDuration as that sum rounded to the
\* nearest hundredth and avgDuration as the unrounded sum divided by
\* renderCount, rounded to the nearest hundredth.
C38_AvgIsRoundedQuotient ==
  /\ TalliesDurations
  /\ (last.op = "stop") =>
       \A i \in DOMAIN last.ret :
         /\ last.ret[i].renderCount = DataEntry(last.ret[i]).renderCount
         /\ last.ret[i].renderCount > 0
         /\ IsRounded(last.ret[i].totalDuration, DataEntry(last.ret[i]).totalDuration, 2)
         /\ IsRounded(last.ret[i].avgDuration, DataEntry(last.ret[i]).totalDuration,
                      2 * last.ret[i].renderCount)

\* C38's case: stop() reports an entry of several visits whose sum of
\* durations is not a whole number of hundredths and whose average is not
\* the reported total over the count, one of the visits being of a node
\* without a duration.
C38_Witness ==
  /\ last.op = "stop"
  /\ \E i \in DOMAIN last.ret :
       /\ last.ret[i].renderCount >= 2
       /\ \E f \in alternate :
            /\ Fib(f).tag \in {0, 1} /\ actualDuration[f] = 0
            /\ NameOf(f) = last.ret[i].componentName
       /\ DataEntry(last.ret[i]).totalDuration % 2 = 1
       /\ last.ret[i].avgDuration * last.ret[i].renderCount # last.ret[i].totalDuration

\* --------------------------------------------------------------- C37

\* The target's own state: the debug hook with its renderers and roots, the
\* fibers with their fields and links, the values they refer to, the hook's
\* commit callback, and what the target keeps per fiber.
TargetState == <<hook, fiber, heap, onCommitFiberRoot, alternate, actualDuration>>
ReadOps == {"detect", "getTree", "search", "inspect"}
WriteOps == {"mutate", "start", "stop"}

\* C37: detect, getTree, search and inspect leave the target's own state as
\* it is: a step of one of them changes no field or link of a fiber, does
\* not replace the hook's commit callback and calls no dispatch function or
\* state setter; a step that replaces the callback is start or stop, and a
\* step that calls a dispatch function or setter is mutate.
C37_ReadersHaveNoSideEffect ==
  [][/\ last'.op \in ReadOps =>
          /\ UNCHANGED TargetState
          /\ "calls" \notin DOMAIN last'
     /\ onCommitFiberRoot' # onCommitFiberRoot => last'.op \in {"start", "stop"}
     /\ ("calls" \in DOMAIN last' /\ last' # last) =>
          (last'.op = "mutate" \/ last'.calls = <<>>)
     /\ TargetState' # TargetState => last'.op \in WriteOps]_vars

\* C37's case: while a profiling session has its wrapper installed and the
\* registry holds handles, an inspect of a registered function component
\* with a dispatch function runs and the wrapper is still installed.
C37_Witness ==
  /\ last.op = "inspect" /\ Present(last.before, last.idx) /\ ~raised(last.ret)
  /\ \E i \in DOMAIN last.ret.hooks : last.ret.hooks[i].type = "useState"
  /\ onCommitFiberRoot.k = "wrapper"

=============================================================================
